---- MODULE Spec2Model ----
(***************************************************************************)
(* Verification model of the plumbing voice bridge: the idempotency store, *)
(* the idempotent side-effect executor (withIdempotency), the call state   *)
(* machine (canTransition / transition) and the session store.             *)
(***************************************************************************)
EXTENDS Integers, Sequences, FiniteSets, TLC

\* ------------------------------------------------------------------ bounds
MaxFnCalls == 2      \* executions of the wrapped function per key
MaxClock == 1        \* ticks of the wall clock
MaxAudit == 7        \* audit entries a session accumulates
MaxFaults == 1       \* failures of collaborators and of the store during a call
MaxIdle == 3         \* minutes the clock runs while the janitor is watched

VARIABLES
  \* ---- process environment / idempotency store (idempotencyStore.js)
  idpEnabled,   \* process.env.IDP_ENABLED, read by withIdempotency
  storeFaulty,  \* TRUE when the SQLite file can fail with an I/O error
  db,           \* table idempotency: key -> [result_json, created_at]
  now,          \* wall clock (new Date())
  \* ---- one withIdempotency invocation per caller (withIdempotency.js)
  pc,           \* caller -> position inside withIdempotency
  key,          \* caller -> the key argument
  hit,          \* caller -> local `hit` (what getIdempotency resolved to)
  returned,     \* caller -> what the invocation resolved / rejected with
  \* ---- the external collaborator behind the wrapped function
  fnCalls,      \* key -> number of times the wrapped fn was invoked
  fnEffects,    \* key -> number of invocations of fn that resolved (effect done)
  resolvedOnce, \* key -> some invocation with the key has resolved
  lastOutcome,  \* key -> how the latest settled invocation with the key ended
  \* ---- session store and call state machine (sessionStore.js, stateMachine.js)
  heap,         \* callSid -> the session object created for the call
  sessions,     \* keys of the Map `sessions` (the calls the store holds)
  callFinalized,\* callSid -> the relay's per-connection flag callFinalized
  lastOp,       \* the latest call on the state machine / store and its outcome
  \* ---- one evaluation of canTransition on a pair of the stage matrix
  ctFrom, ctTo, ctResult,
  \* ---- process start (server.js: initializeIdempotency, bootstrap)
  nodeEnv,      \* process.env.NODE_ENV
  boot,         \* position of bootstrap(): starting / status_check / listening / exited
  storeInit,    \* idempotencyStore.js `db` is set (initIdempotency has succeeded)
  janitor,      \* startSessionJanitor() has been called
  \* ---- one comparison of two keys built by buildIdempotencyKey
  ckA, ckB, ckResult,
  \* ---- dispatchTool invocations and the collaborators behind them (toolRouter.js)
  hubspotEnabled, \* process.env.HUBSPOT_ENABLED is 'true'
  crm,          \* the CRM's record of the contact (consent, timestamp, phone)
  dpc,          \* dispatcher -> position inside dispatchTool / the tool handler
  dreq,         \* dispatcher -> the arguments { callSid, toolName, payload }
  dloc,         \* dispatcher -> locals of the handler that live across awaits
  dres,         \* dispatcher -> what dispatchTool resolved / rejected with
  dinv,         \* dispatcher -> collaborators invoked on behalf of the dispatch
  effects,      \* remote operation -> number of times it was carried out
  faults,       \* number of calls that failed at a collaborator or at the store
  lastFailed,   \* dispatcher -> the request last answered ok:false with the stage moved
  \* ---- the relay of one Twilio stream connection (wsServer.on('connection'))
  relay         \* the two sockets, the closure's flags and what was sent to each peer

idpVars == <<idpEnabled, storeFaulty, db, pc, key, hit, returned,
             fnCalls, fnEffects, resolvedOnce, lastOutcome>>

smVars == <<heap, sessions, callFinalized, lastOp>>

ctVars == <<ctFrom, ctTo, ctResult>>

bootVars == <<nodeEnv, boot, storeInit, janitor>>

ckVars == <<ckA, ckB, ckResult>>

dispVars == <<hubspotEnabled, crm, dpc, dreq, dloc, dres, dinv, effects, faults,
              lastFailed>>

vars == <<idpEnabled, storeFaulty, db, now, pc, key, hit, returned,
          fnCalls, fnEffects, resolvedOnce, lastOutcome,
          heap, sessions, callFinalized, lastOp, ctFrom, ctTo, ctResult,
          nodeEnv, boot, storeInit, janitor, ckA, ckB, ckResult,
          hubspotEnabled, crm, dpc, dreq, dloc, dres, dinv, effects, faults,
          lastFailed, relay>>

\* The concurrent invocations of withIdempotency and the keys they use.
Callers == {"A", "B"}
Keys == {"k1", "k2"}

\* ------------------------------------------------------------ JS values
\* A result object of a wrapped function: every wrapped function of the
\* repository resolves to an object literal with an identifier taken from
\* the remote response ({ messageSid: payload.sid }, { calendarEventId:
\* response.id, ... }, { id: created.id, ... }); the identifier is undefined
\* when the response does not carry it.
Undefined == "undefined"
Ids == {"id_a", "id_b"}

Results == {[f \in {"id"} |-> v] : v \in Ids \cup {Undefined}}

\* JSON.stringify drops the properties whose value is undefined.
JSONstringify(obj) ==
  [json |-> [f \in {g \in DOMAIN obj : obj[g] # Undefined} |-> obj[f]]]

JSONparse(text) == text.json

\* What a promise settles with.
Null == [tag |-> "null"]
Obj(o) == [tag |-> "object", value |-> o]
Rejected(code) == [tag |-> "error", code |-> code]
Pending == [tag |-> "pending"]

\* `if (hit)`: null is falsy, every object is truthy.
Truthy(v) == v.tag = "object"

\* ------------------------------------------------- idempotencyStore.js
\* A lookup that never finds the row (a SELECT on the wrong key column).
getIdempotencyMiss(table, k) == Null

\* selectByKeyStmt.get(key) and JSON.parse(row.result_json)
getIdempotency(table, k) ==
  IF k \in DOMAIN table THEN Obj(JSONparse(table[k].result_json)) ELSE Null

\* INSERT OR REPLACE: the statement a last-writer-wins store would run.
InsertOrReplace(table, k, row) ==
  [x \in DOMAIN table \cup {k} |-> IF x = k THEN row ELSE table[x]]

\* INSERT OR IGNORE INTO idempotency (key, result_json, created_at)
InsertOrIgnore(table, k, row) ==
  IF k \in DOMAIN table
    THEN table
    ELSE [x \in DOMAIN table \cup {k} |-> IF x = k THEN row ELSE table[x]]

\* setIdempotency(key, resultObj)
setIdempotency(table, k, resultObj, ts) ==
  InsertOrIgnore(table, k, [result_json |-> JSONstringify(resultObj), created_at |-> ts])

\* ---------------------------------------------------- withIdempotency.js
\* withIdempotency is an async function: the blocks between two awaits run
\* without interleaving, and another invocation can run between them.
\*   block 1 (the call): the IDP_ENABLED test and the body of getIdempotency
\*   block 2: `if (hit) return hit;` and the call of fn()
\*   block 3 (fn settled): `result = ...; setIdempotency(key, result)` and the
\*            return, or the rejection when fn or the store threw

Settled(c) == pc[c] \in {"idle", "done"}

InitIdempotency ==
  /\ idpEnabled \in BOOLEAN
  /\ storeFaulty \in BOOLEAN
  /\ db = [k \in {} |-> Null]
  /\ pc = [c \in Callers |-> "idle"]
  /\ key = [c \in Callers |-> "k1"]
  /\ hit = [c \in Callers |-> Null]
  /\ returned = [c \in Callers |-> Pending]
  /\ fnCalls = [k \in Keys |-> 0]
  /\ fnEffects = [k \in Keys |-> 0]
  /\ resolvedOnce = [k \in Keys |-> FALSE]
  /\ lastOutcome = [k \in Keys |-> "none"]

\* The promise of caller c settles with value v.
Settle(c, v) ==
  /\ pc' = [pc EXCEPT ![c] = "done"]
  /\ hit' = [hit EXCEPT ![c] = Null]
  /\ returned' = [returned EXCEPT ![c] = v]
  /\ resolvedOnce' = [resolvedOnce EXCEPT ![key[c]] = @ \/ v.tag = "object"]
  /\ lastOutcome' = [lastOutcome EXCEPT ![key[c]] =
                       IF v.tag = "object" THEN "resolved" ELSE v.code]

\* Block 1 with idempotency enabled: the SELECT has run, `hit` is awaited.
withIdempotencyCall(c, k) ==
  /\ Settled(c)
  /\ idpEnabled
  /\ storeInit
  /\ pc' = [pc EXCEPT ![c] = "hit_check"]
  /\ key' = [key EXCEPT ![c] = k]
  /\ hit' = [hit EXCEPT ![c] = getIdempotency(db, k)]
  /\ returned' = [returned EXCEPT ![c] = Pending]
  /\ UNCHANGED <<bootVars, ckVars, dispVars, smVars, ctVars, relay, idpEnabled, storeFaulty, db, now, fnCalls, fnEffects,
                 resolvedOnce, lastOutcome>>

\* Block 1 when the SELECT fails or the store was never initialized
\* (ensureInitialized throws): getIdempotency rejects, so does the call.
withIdempotencyCallStorageError(c, k) ==
  /\ Settled(c)
  /\ idpEnabled
  /\ storeFaulty \/ ~storeInit
  /\ key' = [key EXCEPT ![c] = k]
  /\ hit' = [hit EXCEPT ![c] = Null]
  /\ pc' = [pc EXCEPT ![c] = "done"]
  /\ returned' = [returned EXCEPT ![c] = Rejected("StorageError")]
  /\ lastOutcome' = [lastOutcome EXCEPT ![k] = "StorageError"]
  /\ UNCHANGED <<bootVars, ckVars, dispVars, smVars, ctVars, relay, idpEnabled, storeFaulty, db, now, fnCalls, fnEffects, resolvedOnce>>

\* Block 1 with IDP_ENABLED=false: `return fn()` without touching the store.
withIdempotencyBypass(c, k) ==
  /\ Settled(c)
  /\ ~idpEnabled
  /\ fnCalls[k] < MaxFnCalls
  /\ pc' = [pc EXCEPT ![c] = "in_fn"]
  /\ key' = [key EXCEPT ![c] = k]
  /\ hit' = [hit EXCEPT ![c] = Null]
  /\ returned' = [returned EXCEPT ![c] = Pending]
  /\ fnCalls' = [fnCalls EXCEPT ![k] = @ + 1]
  /\ UNCHANGED <<bootVars, ckVars, dispVars, smVars, ctVars, relay, idpEnabled, storeFaulty, db, now, fnEffects, resolvedOnce, lastOutcome>>

\* Block 2, `if (hit)`: the stored result is returned, fn is not called.
IdempotencyHit(c) ==
  /\ pc[c] = "hit_check"
  /\ Truthy(hit[c])
  /\ Settle(c, hit[c])
  /\ UNCHANGED <<bootVars, ckVars, dispVars, smVars, ctVars, relay, idpEnabled, storeFaulty, db, now, key, fnCalls, fnEffects>>

\* Block 2, no hit: `await fn()` calls the wrapped function.
InvokeFn(c) ==
  /\ pc[c] = "hit_check"
  /\ ~Truthy(hit[c])
  /\ fnCalls[key[c]] < MaxFnCalls
  /\ pc' = [pc EXCEPT ![c] = "in_fn"]
  /\ fnCalls' = [fnCalls EXCEPT ![key[c]] = @ + 1]
  /\ UNCHANGED <<bootVars, ckVars, dispVars, smVars, ctVars, relay, idpEnabled, storeFaulty, db, now, key, hit, returned,
                 fnEffects, resolvedOnce, lastOutcome>>

\* Block 3: fn resolved with r; the record is inserted and r is returned.
\* With IDP_ENABLED=false the promise of fn is the promise of the call.
FnResolved(c, r) ==
  /\ pc[c] = "in_fn"
  /\ fnEffects' = [fnEffects EXCEPT ![key[c]] = @ + 1]
  /\ db' = IF idpEnabled THEN setIdempotency(db, key[c], r, now) ELSE db
  /\ Settle(c, Obj(r))
  /\ UNCHANGED <<bootVars, ckVars, dispVars, smVars, ctVars, relay, idpEnabled, storeFaulty, now, key, fnCalls>>

\* Block 3 when the INSERT fails: fn has resolved, setIdempotency rejects.
FnResolvedStorageError(c, r) ==
  /\ pc[c] = "in_fn"
  /\ idpEnabled
  /\ storeFaulty
  /\ fnEffects' = [fnEffects EXCEPT ![key[c]] = @ + 1]
  /\ Settle(c, Rejected("StorageError"))
  /\ UNCHANGED <<bootVars, ckVars, dispVars, smVars, ctVars, relay, idpEnabled, storeFaulty, db, now, key, fnCalls>>

\* A variant that records the failure as if it were a result.
FnRejectedRecorded(c) ==
  /\ pc[c] = "in_fn"
  /\ db' = setIdempotency(db, key[c], [f \in {"id"} |-> Undefined], now)
  /\ Settle(c, Rejected("FnError"))
  /\ UNCHANGED <<bootVars, ckVars, dispVars, smVars, ctVars, relay, idpEnabled, storeFaulty, now, key, fnCalls, fnEffects>>

\* Block 3 when fn threw: the error propagates, setIdempotency is not reached.
FnRejected(c) ==
  /\ pc[c] = "in_fn"
  /\ Settle(c, Rejected("FnError"))
  /\ UNCHANGED <<bootVars, ckVars, dispVars, smVars, ctVars, relay, idpEnabled, storeFaulty, db, now, key, fnCalls, fnEffects>>

\* ------------------------------------------------------ stateMachine.js
STATES == <<"CALL_STARTED", "IDENTITY_CHECKED", "ADDRESS_CONFIRMED",
            "PROBLEM_CAPTURED", "SCHEDULING", "BOOKED", "CONFIRMED_SMS_SENT",
            "LOGGED_TO_HUBSPOT", "ESCALATED", "CALL_ENDED">>

\* session.state of a session no transition has been applied to
NullState == "null"

\* Array.prototype.includes / indexOf on STATES
includes(arr, x) == \E i \in 1..Len(arr) : arr[i] = x

indexOf(arr, x) == CHOOSE i \in 1..Len(arr) : arr[i] = x

Stages == {STATES[i] : i \in 1..Len(STATES)}

\* A validation that forgets the self-loop and terminal tests of the code.
canTransitionLax(from, to) ==
  IF ~includes(STATES, to) THEN FALSE
  ELSE IF from = NullState THEN to = "CALL_STARTED"
  ELSE IF ~includes(STATES, from) THEN FALSE
  ELSE IF to = "CALL_ENDED" THEN TRUE
  ELSE IF to = "LOGGED_TO_HUBSPOT"
    THEN from \in {"PROBLEM_CAPTURED", "SCHEDULING", "BOOKED",
                   "CONFIRMED_SMS_SENT", "ESCALATED"}
  ELSE indexOf(STATES, to) = indexOf(STATES, from) + 1

\* A validation that accepts any forward move in the ordering.
canTransitionForward(from, to) ==
  IF ~includes(STATES, to) THEN FALSE
  ELSE IF from = NullState THEN to = "CALL_STARTED"
  ELSE IF ~includes(STATES, from) \/ from = to \/ from = "CALL_ENDED" THEN FALSE
  ELSE IF to = "CALL_ENDED" THEN TRUE
  ELSE IF to = "LOGGED_TO_HUBSPOT"
    THEN from \in {"PROBLEM_CAPTURED", "SCHEDULING", "BOOKED",
                   "CONFIRMED_SMS_SENT", "ESCALATED"}
  ELSE indexOf(STATES, to) > indexOf(STATES, from)

canTransition(from, to) ==
  IF ~includes(STATES, to) THEN FALSE
  ELSE IF from = NullState THEN to = "CALL_STARTED"
  ELSE IF ~includes(STATES, from) \/ from = to \/ from = "CALL_ENDED" THEN FALSE
  ELSE IF to = "CALL_ENDED" THEN TRUE
  ELSE IF to = "LOGGED_TO_HUBSPOT"
    THEN from \in {"PROBLEM_CAPTURED", "SCHEDULING", "BOOKED",
                   "CONFIRMED_SMS_SENT", "ESCALATED"}
  ELSE indexOf(STATES, to) = indexOf(STATES, from) + 1

\* A transition that stamps the session before it validates.
transitionPartial(session, nextState, reason, ts) ==
  IF ~canTransition(session.state, nextState)
    THEN [ok |-> FALSE,
          session |-> [session EXCEPT !.updatedAt = ts, !.lastSeenAt = ts]]
    ELSE [ok |-> TRUE,
          session |-> [session EXCEPT
                         !.state = nextState,
                         !.updatedAt = ts,
                         !.lastSeenAt = ts,
                         !.auditLog = Append(@, [ts |-> ts,
                                                 callSid |-> session.callSid,
                                                 previousState |-> session.state,
                                                 nextState |-> nextState,
                                                 reason |-> reason])]]

\* A transition that moves the stage and writes no audit entry.
transitionUnlogged(session, nextState, reason, ts) ==
  IF ~canTransition(session.state, nextState)
    THEN [ok |-> FALSE, session |-> session]
    ELSE [ok |-> TRUE,
          session |-> [session EXCEPT !.state = nextState, !.updatedAt = ts,
                                      !.lastSeenAt = ts]]

\* transition(session, nextState, reason) at clock ts: ok = FALSE is the
\* thrown `Invalid transition from -> to`, with the session as the throw
\* leaves it; ok = TRUE carries the mutated session.
transition(session, nextState, reason, ts) ==
  IF ~canTransition(session.state, nextState)
    THEN [ok |-> FALSE, session |-> session]
    ELSE [ok |-> TRUE,
          session |-> [session EXCEPT
                         !.state = nextState,
                         !.updatedAt = ts,
                         !.lastSeenAt = ts,
                         !.auditLog = Append(@, [ts |-> ts,
                                                 callSid |-> session.callSid,
                                                 previousState |-> session.state,
                                                 nextState |-> nextState,
                                                 reason |-> reason])]]

\* ------------------------------------------------------- sessionStore.js
CallSids == {"CA1"}

\* The properties the tool handlers and the CRM intake add to a session,
\* each with the value that stands for `the property is not there`.
NoContact == [set |-> FALSE, phone |-> ""]
NoHubspot == [set |-> FALSE, crmReady |-> FALSE, contactId |-> "", dealId |-> ""]
NoScheduling == [set |-> FALSE, proposedSlots |-> << >>]
NoBooking == [set |-> FALSE, calendarEventId |-> "", startISO |-> "", endISO |-> ""]
NoConsent == [set |-> FALSE, consent |-> FALSE, consentTsISO |-> ""]
NoDeployment ==
  [set |-> FALSE, status |-> "", classification |-> "", allowed |-> FALSE, reason |-> "",
   isTester |-> FALSE]

\* The caller's number in the start message.
CallerPhone == "+15550001111"

\* createSession(callSid, streamSid, callerPhone) at clock ts
createSession(callSid, ts) ==
  [callSid |-> callSid, callerPhone |-> CallerPhone, state |-> NullState, createdAt |-> ts,
   updatedAt |-> ts, lastSeenAt |-> ts, auditLog |-> << >>,
   contact |-> NoContact, address |-> FALSE, problem |-> FALSE,
   hubspot |-> NoHubspot, scheduling |-> NoScheduling, booking |-> NoBooking,
   contactConsent |-> NoConsent, deployment |-> NoDeployment]

\* touchSession on the object the store holds
touchSession(session, ts) == [session EXCEPT !.lastSeenAt = ts, !.updatedAt = ts]

\* The record of the latest call and its outcome.
Op(name, callSid, from, to, ok) ==
  [op |-> name, callSid |-> callSid, from |-> from, to |-> to, ok |-> ok]

InitSessions ==
  /\ heap = [c \in {} |-> 0]
  /\ sessions = {}
  /\ callFinalized = [c \in CallSids |-> FALSE]
  /\ lastOp = Op("none", "none", NullState, NullState, TRUE)

\* Twilio `start`: createSession, then transition(session, 'CALL_STARTED').
\* A stream carries one start message, so a call gets one session object;
\* the object outlives its entry in the Map while a handler still holds it.
TwilioStart(callSid) ==
  /\ callSid \notin DOMAIN heap
  /\ LET t == transition(createSession(callSid, now), "CALL_STARTED",
                         "twilio_stream_start", now)
     IN /\ heap' = [c \in DOMAIN heap \cup {callSid} |->
                      IF c = callSid THEN t.session ELSE heap[c]]
        /\ lastOp' = Op("transition", callSid, NullState, "CALL_STARTED", t.ok)
  /\ sessions' = sessions \cup {callSid}
  /\ UNCHANGED <<bootVars, ckVars, dispVars, callFinalized, now, idpVars, ctVars, relay>>

\* A holder of the session reference (a dispatch handler, possibly one that
\* was suspended while the store dropped the session) calls
\* transition(session, nextState, 'tool:...').
ToolTransition(callSid, nextState) ==
  /\ callSid \in DOMAIN heap
  /\ Len(heap[callSid].auditLog) < MaxAudit
  /\ LET t == transition(heap[callSid], nextState, "tool", now)
     IN /\ heap' = [heap EXCEPT ![callSid] = t.session]
        /\ lastOp' = Op("transition", callSid, heap[callSid].state, nextState, t.ok)
  /\ UNCHANGED <<bootVars, ckVars, dispVars, sessions, callFinalized, now, idpVars, ctVars, relay>>

\* sessionStore.touchSession(callSid): dispatchTool and every Twilio message.
TouchSession(callSid) ==
  /\ callSid \in sessions
  /\ heap' = [heap EXCEPT ![callSid] = touchSession(@, now)]
  /\ lastOp' = Op("touch", callSid, heap[callSid].state, heap[callSid].state, TRUE)
  /\ UNCHANGED <<bootVars, ckVars, dispVars, sessions, callFinalized, now, idpVars, ctVars, relay>>

\* A finalizeCall that drops the session from the store at the stage it has.
finalizeCallWithoutTransition(callSid) ==
  /\ ~callFinalized[callSid]
  /\ callSid \in DOMAIN heap
  /\ heap' = heap
  /\ lastOp' = Op("endSession", callSid, heap[callSid].state, heap[callSid].state, TRUE)
  /\ sessions' = sessions \ {callSid}
  /\ callFinalized' = [callFinalized EXCEPT ![callSid] = TRUE]
  /\ UNCHANGED <<bootVars, ckVars, dispVars, now, idpVars, ctVars, relay>>

\* The relay's finalizeCall(reason): stop, close or error of a peer.
finalizeCall(callSid) ==
  /\ ~callFinalized[callSid]
  /\ callSid \in DOMAIN heap
  /\ IF callSid \in sessions /\ heap[callSid].state # "CALL_ENDED"
       THEN LET t == transition(heap[callSid], "CALL_ENDED", "twilio_stop", now)
            IN /\ heap' = [heap EXCEPT ![callSid] = t.session]
               /\ lastOp' = Op("transition", callSid, heap[callSid].state,
                               "CALL_ENDED", t.ok)
       ELSE /\ heap' = heap
            /\ lastOp' = Op("endSession", callSid, heap[callSid].state,
                            heap[callSid].state, TRUE)
  /\ sessions' = sessions \ {callSid}
  /\ callFinalized' = [callFinalized EXCEPT ![callSid] = TRUE]
  /\ UNCHANGED <<bootVars, ckVars, dispVars, now, idpVars, ctVars, relay>>

\* sessionStore.endSession(callSid, 'finalized'), the tail of finalize_and_log.
endSession(callSid) ==
  /\ callSid \in sessions
  /\ sessions' = sessions \ {callSid}
  /\ lastOp' = Op("endSession", callSid, heap[callSid].state, heap[callSid].state, TRUE)
  /\ UNCHANGED <<bootVars, ckVars, dispVars, heap, callFinalized, now, idpVars, ctVars, relay>>

\* --------------------------------------------- the stage x stage matrix
\* The arguments canTransition is evaluated on: null and the ten stages, and
\* a name that is no stage.
FromValues == Stages \cup {NullState, "NOT_A_STATE"}
ToValues == Stages \cup {"NOT_A_STATE"}

InitMatrix ==
  /\ ctFrom \in FromValues
  /\ ctTo \in ToValues
  /\ ctResult = "pending"

Evaluate ==
  /\ ctResult = "pending"
  /\ ctResult' = IF canTransition(ctFrom, ctTo) THEN "true" ELSE "false"
  /\ UNCHANGED <<bootVars, ckVars, dispVars, ctFrom, ctTo, now, idpVars, smVars, relay>>

\* ------------------------------- withIdempotency.js: canonicalize and keys
\* JavaScript values: numbers, strings, null, undefined, arrays and plain
\* objects. An object is the sequence of its properties in insertion order.
Num(n) == [t |-> "number", n |-> n]
Str(x) == [t |-> "string", s |-> x]
NullV == [t |-> "null"]
Undef == [t |-> "undefined"]
Arr(items) == [t |-> "array", items |-> items]
ObjV(fields) == [t |-> "object", fields |-> fields]
Prop(k, v) == [k |-> k, v |-> v]

\* The order of String.prototype comparison on the property names in use.
KeyOrder ==
  <<"a", "attendeePhonesOrEmails", "b", "bodyTemplateIdOrBody", "calendarId", "callSid",
    "consent", "consentTsISO", "contactId", "dealId", "dealstage", "errorCode", "firstname",
    "lastname", "message", "noteText", "phone", "pipelineId", "propertiesWritten",
    "slotEndISO", "slotStartISO", "source", "streamSid", "summary", "to", "toolName">>

\* Array.prototype.sort() on property names (no two are equal).
sort(keys) ==
  LET n == Len(keys)
      smaller(k) == Cardinality({j \in 1..n : indexOf(KeyOrder, keys[j]) < indexOf(KeyOrder, k)})
  IN [i \in 1..n |-> keys[CHOOSE j \in 1..n : smaller(keys[j]) = i - 1]]

\* Object.keys(value) and value[key]
ObjectKeys(value) == [i \in 1..Len(value.fields) |-> value.fields[i].k]

Get(value, k) ==
  LET i == CHOOSE j \in 1..Len(value.fields) : value.fields[j].k = k
  IN value.fields[i].v

\* The property sequence acc after `acc[key] = v` for each key of keys whose
\* value is not undefined (the reduce of canonicalize, f applied to values).
RECURSIVE canonicalize(_)

Reduce(value, keys) ==
  LET kept == SelectSeq(keys, LAMBDA k : Get(value, k).t # "undefined")
  IN [i \in 1..Len(kept) |-> Prop(kept[i], canonicalize(Get(value, kept[i])))]

\* A canonicalization that keeps the insertion order of the properties.
canonicalizeUnsorted(value) ==
  IF value.t = "array"
    THEN Arr([i \in 1..Len(value.items) |-> canonicalize(value.items[i])])
  ELSE IF value.t = "object"
    THEN ObjV(Reduce(value, ObjectKeys(value)))
  ELSE value

canonicalize(value) ==
  IF value.t = "array"
    THEN Arr([i \in 1..Len(value.items) |-> canonicalize(value.items[i])])
  ELSE IF value.t = "object"
    THEN ObjV(Reduce(value, sort(ObjectKeys(value))))
  ELSE value

\* The concatenation of the sequences of seqs, sep between two of them.
RECURSIVE Join(_, _)
Join(seqs, sep) ==
  IF Len(seqs) = 0 THEN << >>
  ELSE IF Len(seqs) = 1 THEN seqs[1]
  ELSE seqs[1] \o sep \o Join(Tail(seqs), sep)

\* JSON.stringify(value) as the sequence of its tokens: a property whose
\* value is undefined is left out, an undefined array entry is written null.
RECURSIVE serialized(_)
serialized(value) ==
  IF value.t = "number" THEN <<value.n>>
  ELSE IF value.t = "string" THEN <<"\"", value.s, "\"">>
  ELSE IF value.t \in {"null", "undefined"} THEN <<"null">>
  ELSE IF value.t = "array"
    THEN <<"[">> \o Join([i \in 1..Len(value.items) |-> serialized(value.items[i])], <<",">>)
               \o <<"]">>
  ELSE LET kept == SelectSeq(value.fields, LAMBDA f : f.v.t # "undefined")
       IN <<"{">> \o Join([i \in 1..Len(kept) |->
                             <<"\"", kept[i].k, "\"", ":">> \o serialized(kept[i].v)], <<",">>)
                \o <<"}">>

\* `inputs || {}`: undefined and null are falsy (0 and '' are not in use).
OrEmptyObject(inputs) == IF inputs.t \in {"undefined", "null"} THEN ObjV(<< >>) ELSE inputs

\* sha256(...).digest('hex'): one token that stands for the digest of the
\* serialization, different serializations having different digests.
sha256(text) == [sha256 |-> text]

stableHashOfInputs(inputs) == sha256(serialized(canonicalize(OrEmptyObject(inputs))))

\* `${tenant}:${callSid}:${operation}:${hash}`: strings are sequences of
\* tokens, the template concatenates them.
buildIdempotencyKey(request) ==
  request.tenant \o <<":">> \o request.callSid \o <<":">> \o request.operation
      \o <<":">> \o <<stableHashOfInputs(request.inputs)>>

\* ------------------------------------------------- server.js: bootstrap
NodeEnvs == {"production", "development"}

\* An initialization that accepts IDP_ENABLED=false in every environment.
initializeIdempotencyLax(enabled, env, initThrows) ==
  IF ~enabled THEN [threw |-> FALSE, initialized |-> FALSE]
  ELSE IF initThrows THEN [threw |-> TRUE, initialized |-> FALSE]
  ELSE [threw |-> FALSE, initialized |-> TRUE]

\* initializeIdempotency(): with IDP_ENABLED=false it returns outside
\* production and throws in production; otherwise it awaits
\* initIdempotency(IDP_DB_PATH), which throws when the file cannot be opened.
initializeIdempotency(enabled, env, initThrows) ==
  IF ~enabled
    THEN IF env # "production"
           THEN [threw |-> FALSE, initialized |-> FALSE]
           ELSE [threw |-> TRUE, initialized |-> FALSE]
  ELSE IF initThrows THEN [threw |-> TRUE, initialized |-> FALSE]
  ELSE [threw |-> FALSE, initialized |-> TRUE]

InitBoot ==
  /\ nodeEnv \in NodeEnvs
  /\ boot = "starting"
  /\ storeInit = FALSE
  /\ janitor = FALSE

\* bootstrap() up to `await logStartupDeploymentStatus()`: the try/catch
\* around initializeIdempotency, process.exit(1) in production, otherwise
\* startSessionJanitor().
bootstrap ==
  /\ boot = "starting"
  /\ \E initThrows \in (IF storeFaulty THEN BOOLEAN ELSE {FALSE}) :
       LET r == initializeIdempotency(idpEnabled, nodeEnv, initThrows)
       IN IF r.threw /\ nodeEnv = "production"
            THEN /\ boot' = "exited"
                 /\ UNCHANGED <<storeInit, janitor>>
            ELSE /\ boot' = "status_check"
                 /\ storeInit' = r.initialized
                 /\ janitor' = TRUE
  /\ UNCHANGED <<nodeEnv, now, idpVars, smVars, ctVars, relay, ckVars, dispVars>>

\* bootstrap() after the status check (its errors are caught): server.listen.
serverListen ==
  /\ boot = "status_check"
  /\ boot' = "listening"
  /\ UNCHANGED <<nodeEnv, storeInit, janitor, now, idpVars, smVars, ctVars, relay, ckVars, dispVars>>

\* Requests are served only by a listening process.
Listening == boot = "listening"

\* The requests whose keys are compared. The tenant is the literal
\* 'single' at every call site, the operation one of the literals of the
\* call sites; a call identifier is whatever the stream's start message
\* carried.
Tenant == <<"single">>

Operations == {<<"twilio_send_sms">>, <<"calendar_book_event">>}

CallIds == {<<"CA1">>, <<"CA2">>, <<"CA1", ":", "twilio_send_sms">>}

Scalars == {Num("1"), Num("2"), Str("1"), NullV, Undef}

Nested ==
  {ObjV(<<Prop("a", Num("1")), Prop("b", Num("2"))>>),
   ObjV(<<Prop("b", Num("2")), Prop("a", Num("1"))>>),
   ObjV(<<Prop("a", Num("1")), Prop("b", Undef)>>),
   ObjV(<<Prop("a", Num("1"))>>)}

Arrays ==
  {Arr(<<Num("1"), Num("2")>>), Arr(<<Num("2"), Num("1")>>),
   Arr(<<ObjV(<<Prop("a", Num("1")), Prop("b", Num("2"))>>)>>),
   Arr(<<ObjV(<<Prop("b", Num("2")), Prop("a", Num("1"))>>)>>)}

FieldValues == Scalars \cup Nested \cup Arrays

\* The inputs objects (every call site passes an object literal): one
\* property of any value, or two properties in either insertion order.
Inputs ==
  {ObjV(<< >>)}
    \cup {ObjV(<<Prop(k, v)>>) : k \in {"a", "b"}, v \in FieldValues}
    \cup {ObjV(<<Prop(k[1], v), Prop(k[2], w)>>) :
            k \in {<<"a", "b">>, <<"b", "a">>},
            v \in {Num("1"), Num("2"), Undef}, w \in {Num("1"), Num("2"), Undef}}

Request(callSid, operation, inputs) ==
  [tenant |-> Tenant, callSid |-> callSid, operation |-> operation, inputs |-> inputs]

InitCompareKeys ==
  /\ ckA \in {Request(<<"CA1">>, <<"twilio_send_sms">>, i) : i \in Inputs}
  /\ ckB \in {Request(c, o, i) : c \in CallIds, o \in Operations, i \in Inputs}
  /\ ckResult = "pending"

\* Both keys are built and compared.
CompareKeys ==
  /\ ckResult = "pending"
  /\ ckResult' = IF buildIdempotencyKey(ckA) = buildIdempotencyKey(ckB)
                   THEN "same" ELSE "different"
  /\ UNCHANGED <<ckA, ckB, now, idpVars, smVars, ctVars, relay, bootVars, dispVars>>

\* ---------------------------------------------------------- toolRouter.js
ALLOWED_TOOLS ==
  <<"capture_identity", "confirm_address", "capture_problem", "begin_scheduling",
    "propose_slots", "book_estimate", "request_sms_consent", "send_confirmation_sms",
    "escalate_call", "finalize_and_log">>

\* The keys of the table `handlers`.
HandledTools ==
  {"capture_identity", "confirm_address", "capture_problem", "begin_scheduling",
   "propose_slots", "book_estimate", "request_sms_consent", "send_confirmation_sms",
   "finalize_and_log"}

\* deploymentGate.js
GATED_TOOLS ==
  <<"begin_scheduling", "propose_slots", "book_estimate", "request_sms_consent",
    "send_confirmation_sms">>

\* The keys of alertEventTypeByTool in the catch of dispatchTool.
AlertedTools ==
  {"book_estimate", "send_confirmation_sms", "capture_identity", "confirm_address",
   "capture_problem", "request_sms_consent", "finalize_and_log"}

\* A payload value that is not a string (a number, an object).
NotAString == "#not-a-string"

\* validateString(payload, key, { optional }): TRUE when it returns, FALSE
\* when it throws invalid_payload. The blank string stands for every string
\* that trims to ''.
validateString(payload, k, optional) ==
  IF payload[k] = Undefined /\ optional THEN TRUE
  ELSE payload[k] \notin {Undefined, NotAString, ""}

\* The locals of a handler that are read after an await, and the error the
\* catch of dispatchTool holds.
NoLoc ==
  [error |-> "", details |-> {}, slot |-> "", phone |-> "", consentTsISO |-> "",
   messageSid |-> ""]

\* The `data` of a result: the booking of book_estimate, the message of
\* send_confirmation_sms, a word for the literal data of the other tools.
Data(info, booking, messageSid) ==
  [info |-> info, booking |-> booking, messageSid |-> messageSid]

NoData == Data("", NoBooking, "")

\* What dispatchTool resolves with: success(...) and buildError(...).
success(toolName, session, data) ==
  [tag |-> "resolved", ok |-> TRUE, tool |-> toolName, state |-> session.state,
   code |-> "", details |-> {}, data |-> data]

buildError(toolName, code, details) ==
  [tag |-> "resolved", ok |-> FALSE, tool |-> toolName, state |-> "",
   code |-> code, details |-> details, data |-> NoData]

\* dispatchTool has not settled; dispatchTool rejected.
DispatchPending ==
  [tag |-> "pending", ok |-> FALSE, tool |-> "", state |-> "", code |-> "",
   details |-> {}, data |-> NoData]

DispatchRejected(toolName) ==
  [tag |-> "rejected", ok |-> FALSE, tool |-> toolName, state |-> "", code |-> "",
   details |-> {}, data |-> NoData]

\* How the synchronous part of a handler ends: it throws an error with a
\* code, returns a result, or suspends at an await (`next` names it).
Throw(code, details) ==
  [kind |-> "throw", code |-> code, details |-> details, next |-> "", loc |-> NoLoc,
   data |-> NoData, invoked |-> {}]

ReturnOk(data) ==
  [kind |-> "ok", code |-> "", details |-> {}, next |-> "", loc |-> NoLoc,
   data |-> data, invoked |-> {}]

ReturnError(code) ==
  [kind |-> "error", code |-> code, details |-> {}, next |-> "", loc |-> NoLoc,
   data |-> NoData, invoked |-> {}]

\* The await of a call; invoked names the collaborator the call has reached
\* when it is issued (a read goes out at once).
Await(next, loc, invoked) ==
  [kind |-> "await", code |-> "", details |-> {}, next |-> next, loc |-> loc,
   data |-> NoData, invoked |-> invoked]

Step(session, out) == [session |-> session, out |-> out]

\* stateMachine.js assertState, as used by assertAllowedState
assertState(session, allowedStates) == session.state \in allowedStates

\* requiredFields.js: REQUIRED_FIELDS_BY_TRANSITION[from]?.[to] || []
REQUIRED_FIELDS_BY_TRANSITION(from, to) ==
  IF from = "CALL_STARTED" /\ to = "IDENTITY_CHECKED"
    THEN {"contact.firstname", "contact.lastname"}
  ELSE IF from = "IDENTITY_CHECKED" /\ to = "ADDRESS_CONFIRMED"
    THEN {"address.service_street_1", "address.service_city", "address.service_state",
          "address.service_postal_code"}
  ELSE IF from = "ADDRESS_CONFIRMED" /\ to = "PROBLEM_CAPTURED"
    THEN {"problem.problem_summary"}
  ELSE IF from = "PROBLEM_CAPTURED" /\ to = "SCHEDULING"
    THEN {"hubspot.crmReady", "hubspot.contactId", "hubspot.dealId", "problem.problem_summary"}
  ELSE IF from = "BOOKED" /\ to = "CONFIRMED_SMS_SENT"
    THEN {"booking.startISO", "booking.endISO", "contactConsent.consent",
          "contactConsent.consentTsISO"}
  ELSE {}

\* getByPath and the test of hasRequiredFieldsForTransition: the value at
\* the path is there (a boolean is true, anything else is not null or '').
Populated(session, path) ==
  IF path \in {"contact.firstname", "contact.lastname"} THEN session.contact.set
  ELSE IF path \in {"address.service_street_1", "address.service_city",
                    "address.service_state", "address.service_postal_code"}
    THEN session.address
  ELSE IF path = "problem.problem_summary" THEN session.problem
  ELSE IF path = "hubspot.crmReady" THEN session.hubspot.crmReady
  ELSE IF path = "hubspot.contactId" THEN session.hubspot.contactId # ""
  ELSE IF path = "hubspot.dealId" THEN session.hubspot.dealId # ""
  ELSE IF path = "booking.startISO" THEN session.booking.startISO # ""
  ELSE IF path = "booking.endISO" THEN session.booking.endISO # ""
  ELSE IF path = "contactConsent.consent" THEN session.contactConsent.consent
  ELSE IF path = "contactConsent.consentTsISO" THEN session.contactConsent.consentTsISO # ""
  ELSE FALSE

\* hasRequiredFieldsForTransition(session, nextState).missing
hasRequiredFieldsForTransition(session, nextState) ==
  {path \in REQUIRED_FIELDS_BY_TRANSITION(session.state, nextState) :
     ~Populated(session, path)}

\* hasCrmSchedulingContext(session)
hasCrmSchedulingContext(session) ==
  /\ session.hubspot.crmReady
  /\ session.hubspot.contactId # ""
  /\ session.hubspot.dealId # ""

\* ------------------------------------------- payloads of the tool calls
PayloadKeys ==
  {"firstname", "lastname", "phone", "service_street_1", "service_city", "service_state",
   "service_postal_code", "problem_summary", "count", "slotStartISO", "slotIndex", "consent"}

\* {}: `payload || {}`
NoPayload == [k \in PayloadKeys |-> Undefined]

With(payload, k, v) == [payload EXCEPT ![k] = v]

\* A phone of the payload that differs from the caller's.
OtherPhone == "+15550002222"

ValidIdentity == With(With(NoPayload, "firstname", "Ada"), "lastname", "Lovelace")

ValidAddress ==
  With(With(With(With(NoPayload, "service_street_1", "1 Main St"), "service_city", "Buffalo"),
            "service_state", "NY"), "service_postal_code", "14201")

\* The slots the calendar has free, by startISO, in the order proposeSlots
\* finds them; a slot lasts APPOINTMENT_DURATION_MINUTES.
CalendarSlots == <<"s1">>

endISO(startISO) == startISO \o "+60m"

\* payload.count and payload.slotIndex are numbers, written here in digits;
\* payload.consent is a boolean, written "true" / "false".
Payloads(toolName) ==
  IF toolName = "capture_identity"
    THEN {ValidIdentity,
          With(ValidIdentity, "phone", OtherPhone),
          With(ValidIdentity, "firstname", ""),
          With(ValidIdentity, "lastname", NotAString)}
  ELSE IF toolName = "confirm_address"
    THEN {ValidAddress, With(ValidAddress, "service_city", Undefined)}
  ELSE IF toolName = "capture_problem"
    THEN {With(NoPayload, "problem_summary", "leak"), NoPayload}
  ELSE IF toolName = "propose_slots"
    THEN {NoPayload, With(NoPayload, "count", "0")}
  ELSE IF toolName = "book_estimate"
    THEN {With(NoPayload, "slotStartISO", "s1"), With(NoPayload, "slotIndex", "0"),
          With(NoPayload, "slotIndex", "7"), NoPayload}
  ELSE IF toolName = "request_sms_consent"
    THEN {With(NoPayload, "consent", "true"), With(NoPayload, "consent", "false"), NoPayload}
  ELSE {NoPayload}

\* The tool names a caller sends: the allowed ones and one that is not.
ToolNames == {ALLOWED_TOOLS[i] : i \in DOMAIN ALLOWED_TOOLS} \cup {"not_a_tool"}

\* Number(payload.count) and payload.slotIndex for the digits above.
NumberOf(digits) ==
  IF digits = "0" THEN 0 ELSE IF digits = "1" THEN 1 ELSE IF digits = "7" THEN 7 ELSE -1

\* ------------------------------ wrapped calls of one uninterrupted caller
\* The store fails at the SELECT, at the INSERT, or not at all.
StoreFailures == IF storeFaulty THEN {"none", "select", "insert"} ELSE {"none"}

\* withIdempotency({ key, fn }) of a caller no other invocation interleaves
\* with: fn is what fn() settles with if it is called. `executed` tells that
\* fn was called, `effect` that the remote operation was carried out.
withIdempotency(table, k, fn, storeFails, ts) ==
  IF ~idpEnabled
    THEN [db |-> table, executed |-> TRUE, effect |-> fn.tag = "object", value |-> fn]
  ELSE IF ~storeInit \/ storeFails = "select"
    THEN [db |-> table, executed |-> FALSE, effect |-> FALSE,
          value |-> Rejected("storage_error")]
  ELSE IF Truthy(getIdempotency(table, k))
    THEN [db |-> table, executed |-> FALSE, effect |-> FALSE,
          value |-> getIdempotency(table, k)]
  ELSE IF fn.tag # "object"
    THEN [db |-> table, executed |-> TRUE, effect |-> FALSE, value |-> fn]
  ELSE IF storeFails = "insert"
    THEN [db |-> table, executed |-> TRUE, effect |-> TRUE,
          value |-> Rejected("storage_error")]
  ELSE [db |-> setIdempotency(table, k, fn.value, ts), executed |-> TRUE, effect |-> TRUE,
        value |-> fn]

\* The ways a wrapped call settles: the remote operation answers with the
\* object r (when mayResolve) or fails, and the store works or fails.
Settlements(table, k, r, mayResolve) ==
  {withIdempotency(table, k, fn, sf, now) :
     fn \in (IF mayResolve THEN {Obj(r)} ELSE {}) \cup {Rejected("remote_error")},
     sf \in StoreFailures}

\* One more call can fail.
MayFail == faults < MaxFaults

\* The settlements within the number of failures.
Within(settlements) == {w \in settlements : w.value.tag = "object" \/ MayFail}

\* The key of an operation of the call.
KeyOf(callSid, operation, inputs) ==
  buildIdempotencyKey(Request(<<callSid>>, <<operation>>, inputs))

\* hubspotClient.js
LOCKED_PIPELINE_ID == "2047365827"
LOCKED_ESTIMATE_SCHEDULED_STAGE_ID == "3233958615"
LOCKED_SMS_SENT_STAGE_ID == "3233958613"

ContactId == "contact1"
DealId == "deal1"

\* upsertContact(contactProps, { callSid }) with the contact of capture_identity
upsertContactKey(callSid, phone) ==
  KeyOf(callSid, "hubspot_upsert_contact",
        ObjV(<<Prop("phone", Str(phone)),
               Prop("propertiesWritten",
                    ObjV(<<Prop("firstname", Str("Ada")), Prop("lastname", Str("Lovelace")),
                           Prop("phone", Str(phone))>>))>>))

logEngagementKey(callSid, session, noteBody) ==
  KeyOf(callSid, "hubspot_log_engagement",
        ObjV(<<Prop("dealId", Str(session.hubspot.dealId)),
               Prop("contactId", Str(session.hubspot.contactId)),
               Prop("callSid", Str(callSid)),
               Prop("noteText", Str(noteBody))>>))

updateDealStageKey(callSid, dealId, dealstage) ==
  KeyOf(callSid, "hubspot_update_deal_stage",
        ObjV(<<Prop("dealId", Str(dealId)), Prop("pipelineId", Str(LOCKED_PIPELINE_ID)),
               Prop("dealstage", Str(dealstage))>>))

updateContactConsentKey(callSid, contactId, consentTsISO) ==
  KeyOf(callSid, "hubspot_update_sms_consent",
        ObjV(<<Prop("contactId", Str(contactId)), Prop("consent", Str("true")),
               Prop("consentTsISO", Str(consentTsISO))>>))

\* calendarClient.js bookSlot
bookSlotKey(callSid, session, slotStartISO) ==
  KeyOf(callSid, "calendar_book_event",
        ObjV(<<Prop("calendarId", Str("primary")),
               Prop("slotStartISO", Str(slotStartISO)),
               Prop("slotEndISO", Str(endISO(slotStartISO))),
               Prop("summary", Str("Plumbing Estimate - Ada Lovelace")),
               Prop("attendeePhonesOrEmails",
                    Arr(<<ObjV(<<Prop("phone", Str(session.callerPhone))>>)>>))>>))

\* The key handleSendConfirmationSms builds; the body is a function of the
\* booked start.
sendSmsKey(callSid, to, startISO, dealId) ==
  KeyOf(callSid, "twilio_send_sms",
        ObjV(<<Prop("to", Str(to)),
               Prop("bodyTemplateIdOrBody", Str("Your estimate is scheduled for " \o startISO)),
               Prop("dealId", Str(dealId))>>))

\* new Date().toISOString()
toISOString(ts) == "T" \o ToString(ts)

\* ------------------------------------------------------------ alerting.js
\* alertCritical(eventType, context). The rows of the alerts are not kept
\* in the table: existing tells whether getIdempotency found the row of an
\* earlier alert with the same event, call and context. getIdempotency and
\* setIdempotency are awaited outside the try that wraps the two sends, so
\* what they throw (SQLite fails, the store is not initialized) rejects
\* alertCritical; a failed send is caught and reported in the result.
alertCritical(existing, sendOk, storeFails) ==
  IF ~storeInit \/ storeFails = "select" THEN [threw |-> TRUE, invoked |-> {}]
  ELSE IF existing THEN [threw |-> FALSE, invoked |-> {}]
  ELSE IF ~sendOk THEN [threw |-> FALSE, invoked |-> {"alert"}]
  ELSE IF storeFails = "insert" THEN [threw |-> TRUE, invoked |-> {"alert"}]
  ELSE [threw |-> FALSE, invoked |-> {"alert"}]

\* The ways an alert settles.
Alerts ==
  {alertCritical(existing, sendOk, sf) :
     existing \in BOOLEAN, sendOk \in BOOLEAN, sf \in StoreFailures}

\* -------------------------------------------------------- deploymentGate.js
FALLBACK_TESTERS == <<"+17162508937", "+17165471378">>

\* deployment_status of the company record
DeploymentStatuses == {"live", "provisioning", "suspended"}

\* normalizeE164(phone): String(phone).trim() without blanks, dashes and
\* parentheses, on the ways a number is written here.
normalizeE164(phone) ==
  IF phone = "+1 (716) 250-8937" THEN "+17162508937" ELSE phone

\* getTesterAllowlist() with TEST_CALLER_ALLOWLIST unset, and isTesterCaller
isTesterCaller(phoneE164) ==
  /\ normalizeE164(phoneE164) # ""
  /\ includes(FALLBACK_TESTERS, normalizeE164(phoneE164))

\* String(statusInternalName || '').trim().toLowerCase(), on the ways a
\* status is written here.
toLowerCaseTrimmed(statusInternalName) ==
  IF statusInternalName = " Live " THEN "live" ELSE statusInternalName

classifyDeploymentStatus(statusInternalName) ==
  LET status == toLowerCaseTrimmed(statusInternalName)
  IN IF status = "live" THEN "open"
     ELSE IF status \in {"not_deployed", "provisioning", "awaiting_forwarding"}
       THEN "test_only"
     ELSE IF status \in {"suspended", "cancelled"} THEN "blocked"
     ELSE "unknown"

\* assertDeploymentAllowed for a gated tool: the record it writes to
\* session.deployment, with the code it returns.
assertDeploymentAllowed(callerPhoneE164, deploymentStatus) ==
  LET classification == classifyDeploymentStatus(deploymentStatus)
      isTester == isTesterCaller(callerPhoneE164)
  IN IF classification = "open"
       THEN [allowed |-> TRUE, reason |-> "status_open", code |-> "",
             classification |-> classification, isTester |-> isTester]
     ELSE IF classification = "test_only"
       THEN [allowed |-> isTester,
             reason |-> IF isTester THEN "status_test_only_tester" ELSE "deployment_test_only",
             code |-> IF isTester THEN "" ELSE "deployment_test_only",
             classification |-> classification, isTester |-> isTester]
     ELSE IF classification = "blocked"
       THEN [allowed |-> FALSE, reason |-> "deployment_blocked", code |-> "deployment_blocked",
             classification |-> classification, isTester |-> isTester]
     ELSE [allowed |-> FALSE, reason |-> "deployment_unknown", code |-> "deployment_unknown",
           classification |-> classification, isTester |-> isTester]

\* ------------------------------------------------- the tool handlers
\* Each handler is given as the part that runs up to its first await and one
\* continuation per await; a continuation takes what the awaited call
\* settled with.

\* assertRequiredForTransition, assertTransitionAllowed and transition, in
\* the order the handlers call them.
guardedTransition(session, nextState, reason) ==
  IF hasRequiredFieldsForTransition(session, nextState) # {}
    THEN [ok |-> FALSE, session |-> session,
          out |-> Throw("missing_required_fields",
                        hasRequiredFieldsForTransition(session, nextState))]
  ELSE IF ~canTransition(session.state, nextState)
    THEN [ok |-> FALSE, session |-> session, out |-> Throw("illegal_state", {})]
  ELSE [ok |-> TRUE, session |-> transition(session, nextState, reason, now).session,
        out |-> ReturnOk(NoData)]

\* assertTransitionAllowed and transition
allowedTransition(session, nextState, reason) ==
  IF ~canTransition(session.state, nextState)
    THEN [ok |-> FALSE, session |-> session, out |-> Throw("illegal_state", {})]
  ELSE [ok |-> TRUE, session |-> transition(session, nextState, reason, now).session,
        out |-> ReturnOk(NoData)]

\* maybeUpsertContact(callSid, session, props) up to the await inside
\* upsertContact: phone is props.phone ("" when props has none).
maybeUpsertContact(session, phone, next, data) ==
  IF ~session.hubspot.crmReady THEN ReturnOk(data)
  ELSE IF phone = "" THEN Throw("missing_phone", {})
  ELSE Await(next, [NoLoc EXCEPT !.phone = phone], {})

\* maybeLogEngagement(callSid, session, noteBody) up to the await inside
\* logEngagement.
maybeLogEngagement(session, next, loc, data) ==
  IF ~session.hubspot.crmReady THEN ReturnOk(data)
  ELSE IF session.hubspot.contactId = "" \/ session.hubspot.dealId = ""
    THEN Throw("missing_hubspot_ids", {})
  ELSE Await(next, loc, {})

\* What a settled wrapped call turns into when nothing follows it.
Settle1(w, data) ==
  IF w.value.tag = "object" THEN ReturnOk(data) ELSE Throw(w.value.code, {})

\* A capture_identity that undoes its transition when the contact write
\* throws.
handleCaptureIdentityRollingBack(session, payload) ==
  IF ~assertState(session, {"CALL_STARTED"}) THEN Step(session, Throw("illegal_state", {}))
  ELSE IF ~validateString(payload, "firstname", FALSE)
    THEN Step(session, Throw("invalid_payload", {"firstname"}))
  ELSE IF ~validateString(payload, "lastname", FALSE)
    THEN Step(session, Throw("invalid_payload", {"lastname"}))
  ELSE IF ~validateString(payload, "phone", TRUE)
    THEN Step(session, Throw("invalid_payload", {"phone"}))
  ELSE LET phone == IF payload.phone = Undefined THEN "" ELSE payload.phone
           s1 == [session EXCEPT !.contact = [set |-> TRUE, phone |-> phone]]
           g == guardedTransition(s1, "IDENTITY_CHECKED", "tool:capture_identity")
           out == maybeUpsertContact(g.session, phone, "ci_upsert",
                                     Data("contactCaptured", NoBooking, ""))
       IN IF ~g.ok THEN Step(s1, g.out)
          ELSE IF out.kind = "throw" THEN Step(session, out)
          ELSE Step(g.session, out)

handleCaptureIdentity(session, payload) ==
  IF ~assertState(session, {"CALL_STARTED"}) THEN Step(session, Throw("illegal_state", {}))
  ELSE IF ~validateString(payload, "firstname", FALSE)
    THEN Step(session, Throw("invalid_payload", {"firstname"}))
  ELSE IF ~validateString(payload, "lastname", FALSE)
    THEN Step(session, Throw("invalid_payload", {"lastname"}))
  ELSE IF ~validateString(payload, "phone", TRUE)
    THEN Step(session, Throw("invalid_payload", {"phone"}))
  ELSE LET phone == IF payload.phone = Undefined THEN "" ELSE payload.phone
           s1 == [session EXCEPT !.contact = [set |-> TRUE, phone |-> phone]]
           g == guardedTransition(s1, "IDENTITY_CHECKED", "tool:capture_identity")
       IN IF ~g.ok THEN Step(s1, g.out)
          ELSE Step(g.session,
                    maybeUpsertContact(g.session, phone, "ci_upsert",
                                       Data("contactCaptured", NoBooking, "")))

handleConfirmAddress(session, payload) ==
  IF ~assertState(session, {"IDENTITY_CHECKED"}) THEN Step(session, Throw("illegal_state", {}))
  ELSE IF ~validateString(payload, "service_street_1", FALSE)
    THEN Step(session, Throw("invalid_payload", {"service_street_1"}))
  ELSE IF ~validateString(payload, "service_city", FALSE)
    THEN Step(session, Throw("invalid_payload", {"service_city"}))
  ELSE IF ~validateString(payload, "service_state", FALSE)
    THEN Step(session, Throw("invalid_payload", {"service_state"}))
  ELSE IF ~validateString(payload, "service_postal_code", FALSE)
    THEN Step(session, Throw("invalid_payload", {"service_postal_code"}))
  ELSE LET s1 == [session EXCEPT !.address = TRUE]
           g == guardedTransition(s1, "ADDRESS_CONFIRMED", "tool:confirm_address")
       IN IF ~g.ok THEN Step(s1, g.out)
          ELSE \* session.address carries no phone
               Step(g.session,
                    maybeUpsertContact(g.session, "", "ca_upsert",
                                       Data("addressConfirmed", NoBooking, "")))

handleCaptureProblem(session, payload) ==
  IF ~assertState(session, {"ADDRESS_CONFIRMED"}) THEN Step(session, Throw("illegal_state", {}))
  ELSE IF ~validateString(payload, "problem_summary", FALSE)
    THEN Step(session, Throw("invalid_payload", {"problem_summary"}))
  ELSE LET s1 == [session EXCEPT !.problem = TRUE]
           g == guardedTransition(s1, "PROBLEM_CAPTURED", "tool:capture_problem")
       IN IF ~g.ok THEN Step(s1, g.out)
          ELSE Step(g.session,
                    maybeLogEngagement(g.session, "cp_log", NoLoc,
                                       Data("problemCaptured", NoBooking, "")))

handleBeginScheduling(session) ==
  IF ~assertState(session, {"PROBLEM_CAPTURED"}) THEN Step(session, Throw("illegal_state", {}))
  ELSE IF ~hasCrmSchedulingContext(session)
    THEN Step(session, Throw("missing_prerequisites", {}))
  ELSE LET g == guardedTransition(session, "SCHEDULING", "tool:begin_scheduling")
       IN IF ~g.ok THEN Step(session, g.out)
          ELSE Step(g.session, ReturnOk(Data("propose_slots", NoBooking, "")))

\* payload.count == null ? 3 : Number(payload.count)
requestedCount(payload) == IF payload.count = Undefined THEN 3 ELSE NumberOf(payload.count)

Min(a, b) == IF a < b THEN a ELSE b

handleProposeSlots(session, payload) ==
  IF ~assertState(session, {"SCHEDULING"}) THEN Step(session, Throw("illegal_state", {}))
  ELSE IF ~hasCrmSchedulingContext(session)
    THEN Step(session, Throw("missing_prerequisites", {}))
  ELSE IF requestedCount(payload) <= 0
    THEN Step(session, Throw("invalid_payload", {"count"}))
  ELSE Step(session, Await("ps_propose", NoLoc, {"calendar"}))

\* calendarClient.proposeSlots settled: with the first free slots, at most
\* count of them, or with an error.
handleProposeSlotsSettled(session, payload, resolved, free) ==
  IF ~resolved THEN Step(session, Throw("calendar_error", {}))
  ELSE LET count == Min(Min(requestedCount(payload), 5), free)
           proposedSlots == SubSeq(CalendarSlots, 1, count)
       IN Step([session EXCEPT !.scheduling = [set |-> TRUE, proposedSlots |-> proposedSlots]],
               ReturnOk(Data("proposedSlots", NoBooking, "")))

\* findSelectedSlot(payload, proposedSlots): the startISO of the slot, or
\* the field of the invalid_payload it throws.
findSelectedSlot(payload, proposedSlots) ==
  IF payload.slotStartISO # Undefined
    THEN IF includes(proposedSlots, payload.slotStartISO)
           THEN [ok |-> TRUE, slot |-> payload.slotStartISO, field |-> ""]
           ELSE [ok |-> FALSE, slot |-> "", field |-> "slotStartISO"]
  ELSE IF payload.slotIndex # Undefined
    THEN IF NumberOf(payload.slotIndex) < 0
            \/ NumberOf(payload.slotIndex) >= Len(proposedSlots)
           THEN [ok |-> FALSE, slot |-> "", field |-> "slotIndex"]
           ELSE [ok |-> TRUE, slot |-> proposedSlots[NumberOf(payload.slotIndex) + 1],
                 field |-> ""]
  ELSE [ok |-> FALSE, slot |-> "", field |-> "slotStartISO|slotIndex"]

handleBookEstimate(session, payload) ==
  IF ~assertState(session, {"SCHEDULING"}) THEN Step(session, Throw("illegal_state", {}))
  ELSE IF ~hasCrmSchedulingContext(session)
    THEN Step(session, Throw("missing_prerequisites", {}))
  ELSE IF Len(session.scheduling.proposedSlots) = 0
    THEN Step(session, Throw("missing_prerequisites", {"scheduling.proposedSlots"}))
  ELSE IF ~session.problem
    THEN Step(session, Throw("missing_prerequisites", {"problem.problem_summary"}))
  ELSE LET selected == findSelectedSlot(payload, session.scheduling.proposedSlots)
       IN IF ~selected.ok THEN Step(session, Throw("invalid_payload", {selected.field}))
          ELSE Step(session, Await("be_book", [NoLoc EXCEPT !.slot = selected.slot], {}))

\* The catch of handleBookEstimate, up to its await of alertCritical.
bookEstimateCatch(session, loc, code) ==
  Step(session, Await("be_alert", [loc EXCEPT !.error = code], {}))

\* bookSlot settled: session.booking = booking, then updateDealStage.
handleBookEstimateBooked(session, loc, w) ==
  IF w.value.tag # "object" THEN bookEstimateCatch(session, loc, w.value.code)
  ELSE Step([session EXCEPT !.booking = [set |-> TRUE,
                                         calendarEventId |-> w.value.value.calendarEventId,
                                         startISO |-> w.value.value.startISO,
                                         endISO |-> w.value.value.endISO]],
            Await("be_stage", loc, {}))

\* updateDealStage settled, then logEngagement.
handleBookEstimateStaged(session, loc, w) ==
  IF w.value.tag # "object" THEN bookEstimateCatch(session, loc, w.value.code)
  ELSE Step(session, Await("be_log", loc, {}))

\* logEngagement settled, then the transition to BOOKED.
handleBookEstimateLogged(session, loc, w) ==
  IF w.value.tag # "object" THEN bookEstimateCatch(session, loc, w.value.code)
  ELSE LET g == allowedTransition(session, "BOOKED", "tool:book_estimate")
       IN IF ~g.ok THEN bookEstimateCatch(session, loc, "illegal_state")
          ELSE Step(g.session, ReturnOk(Data("booking", g.session.booking, "")))

\* alertCritical of the catch settled, then the note of the failure.
handleBookEstimateAlerted(session, loc, alert) ==
  IF alert.threw THEN Step(session, Throw("storage_error", {}))
  ELSE IF hasCrmSchedulingContext(session) THEN Step(session, Await("be_faillog", loc, {}))
  ELSE Step(session, ReturnError("calendar_booking_failed"))

handleBookEstimateFailureLogged(session, loc, w) ==
  IF w.value.tag # "object" THEN Step(session, Throw(w.value.code, {}))
  ELSE Step(session, ReturnError("calendar_booking_failed"))

handleRequestSmsConsent(session, payload) ==
  IF ~assertState(session, {"BOOKED"}) THEN Step(session, Throw("illegal_state", {}))
  ELSE IF payload.consent \notin {"true", "false"}
    THEN Step(session, Throw("invalid_payload", {"consent"}))
  ELSE IF ~session.hubspot.crmReady THEN Step(session, Throw("crm_not_ready", {}))
  ELSE IF payload.consent = "true"
    THEN IF session.hubspot.contactId = ""
           THEN Step(session, Throw("missing_contact_id", {}))
           ELSE Step(session,
                     Await("rc_update", [NoLoc EXCEPT !.consentTsISO = toISOString(now)], {}))
  ELSE LET s1 == [session EXCEPT !.contactConsent =
                                    [set |-> TRUE, consent |-> FALSE, consentTsISO |-> ""]]
       IN Step(s1, maybeLogEngagement(s1, "rc_log", NoLoc, Data("consent:false", NoBooking, "")))

handleRequestSmsConsentUpdated(session, loc, w) ==
  IF w.value.tag # "object" THEN Step(session, Throw(w.value.code, {}))
  ELSE Step([session EXCEPT !.contactConsent =
                              [set |-> TRUE, consent |-> TRUE,
                               consentTsISO |-> loc.consentTsISO]],
            ReturnOk(Data("consent:true", NoBooking, "")))

handleSendConfirmationSms(session) ==
  IF ~assertState(session, {"BOOKED"}) THEN Step(session, Throw("illegal_state", {}))
  ELSE IF ~session.hubspot.crmReady THEN Step(session, Throw("crm_not_ready", {}))
  ELSE IF session.hubspot.contactId = "" \/ session.hubspot.dealId = ""
    THEN Step(session, Throw("missing_hubspot_ids", {}))
  ELSE IF session.booking.startISO = "" \/ session.booking.endISO = ""
    THEN Step(session, Throw("missing_prerequisites", {"booking.startISO|booking.endISO"}))
  ELSE \* readConsentState ends in getContactById whatever the session holds
       Step(session, Await("ss_consent", NoLoc, {"crm"}))

\* A consent test that takes a consent the contact never gave.
consentGivenLax(contact) == contact.consent # "false"

\* consentState.consent === true, on the contact getContactById returned
consentGiven(contact) == contact.consent = "true"

\* getContactById settled: the consent tests, the phone, and the call of
\* withIdempotency for the send.
handleSendConfirmationSmsConsentRead(session, resolved, contact) ==
  IF ~resolved THEN Step(session, Throw("hubspot_api_error", {}))
  ELSE IF ~consentGiven(contact) THEN Step(session, ReturnError("sms_consent_required"))
  ELSE IF contact.consentTsISO = "" THEN Step(session, ReturnError("sms_consent_ts_missing"))
  ELSE LET contactPhone == IF session.contact.phone # "" THEN session.contact.phone
                           ELSE contact.phone
       IN IF contactPhone = ""
            THEN Step(session, Throw("missing_prerequisites", {"contact.phone"}))
            ELSE Step(session,
                      Await("ss_send", [NoLoc EXCEPT !.phone = contactPhone,
                                                     !.consentTsISO = contact.consentTsISO],
                            {}))

\* The catch of handleSendConfirmationSms, up to the await inside
\* maybeLogEngagement.
sendConfirmationSmsCatch(session, loc, code) ==
  IF ~session.hubspot.crmReady
    THEN Step(session, Await("ss_alert", [loc EXCEPT !.error = code], {}))
    ELSE Step(session,
              maybeLogEngagement(session, "ss_faillog", [loc EXCEPT !.error = code], NoData))

\* The send settled: the transition to CONFIRMED_SMS_SENT, then
\* updateDealStage.
handleSendConfirmationSmsSent(session, loc, w) ==
  IF w.value.tag # "object" THEN sendConfirmationSmsCatch(session, loc, w.value.code)
  ELSE LET withConsent == [session EXCEPT !.contactConsent =
                                            [set |-> TRUE, consent |-> TRUE,
                                             consentTsISO |-> loc.consentTsISO]]
           missing == hasRequiredFieldsForTransition(withConsent, "CONFIRMED_SMS_SENT")
           g == allowedTransition(session, "CONFIRMED_SMS_SENT", "tool:send_confirmation_sms")
       IN IF missing # {} THEN sendConfirmationSmsCatch(session, loc, "missing_required_fields")
          ELSE IF ~g.ok THEN sendConfirmationSmsCatch(session, loc, "illegal_state")
          ELSE Step(g.session,
                    Await("ss_stage", [loc EXCEPT !.messageSid = w.value.value.messageSid], {}))

handleSendConfirmationSmsStaged(session, loc, w) ==
  IF w.value.tag # "object" THEN sendConfirmationSmsCatch(session, loc, w.value.code)
  ELSE LET out == maybeLogEngagement(session, "ss_log", loc,
                                     Data("sms", NoBooking, loc.messageSid))
       IN IF out.kind = "throw" THEN sendConfirmationSmsCatch(session, loc, out.code)
          ELSE Step(session, out)

handleSendConfirmationSmsLogged(session, loc, w) ==
  IF w.value.tag # "object" THEN sendConfirmationSmsCatch(session, loc, w.value.code)
  ELSE Step(session, ReturnOk(Data("sms", NoBooking, loc.messageSid)))

handleSendConfirmationSmsFailureLogged(session, loc, w) ==
  IF w.value.tag # "object" THEN Step(session, Throw(w.value.code, {}))
  ELSE Step(session, Await("ss_alert", loc, {}))

handleSendConfirmationSmsAlerted(session, loc, alert) ==
  IF alert.threw THEN Step(session, Throw("storage_error", {}))
  ELSE Step(session, ReturnError("sms_send_failed"))

\* A finalize_and_log that ends the call without the stage LOGGED_TO_HUBSPOT
finalizeTransitionsEndingOnly(session) ==
  LET g2 == allowedTransition(session, "CALL_ENDED", "tool:finalize_and_log")
  IN IF ~g2.ok THEN Step(session, g2.out)
     ELSE Step(g2.session, ReturnOk(Data("ended", NoBooking, "")))

\* The two transitions and the return of handleFinalizeAndLog; ended tells
\* that sessionStore.endSession was reached.
finalizeTransitions(session) ==
  LET g1 == allowedTransition(session, "LOGGED_TO_HUBSPOT", "tool:finalize_and_log")
      g2 == allowedTransition(g1.session, "CALL_ENDED", "tool:finalize_and_log")
  IN IF ~g1.ok THEN Step(session, g1.out)
     ELSE IF ~g2.ok THEN Step(g1.session, g2.out)
     ELSE Step(g2.session, ReturnOk(Data("ended", NoBooking, "")))

\* A finalize_and_log that writes its note whether or not the CRM is ready
handleFinalizeAndLogAlwaysLogging(session) ==
  IF ~assertState(session, {"PROBLEM_CAPTURED", "SCHEDULING", "BOOKED", "CONFIRMED_SMS_SENT",
                            "ESCALATED"})
    THEN Step(session, Throw("illegal_state", {}))
    ELSE Step(session, Await("fl_log", NoLoc, {}))

handleFinalizeAndLog(session) ==
  IF ~assertState(session, {"PROBLEM_CAPTURED", "SCHEDULING", "BOOKED", "CONFIRMED_SMS_SENT",
                            "ESCALATED"})
    THEN Step(session, Throw("illegal_state", {}))
  ELSE IF session.hubspot.crmReady
    THEN IF session.hubspot.contactId = "" \/ session.hubspot.dealId = ""
           THEN Step(session, Throw("missing_hubspot_ids", {}))
           ELSE Step(session, Await("fl_log", NoLoc, {}))
  ELSE finalizeTransitions(session)

handleFinalizeAndLogLogged(session, w) ==
  IF w.value.tag # "object" THEN Step(session, Throw(w.value.code, {}))
  ELSE finalizeTransitions(session)

\* handlers[toolName]({ callSid, session, payload }) up to its first await
handlers(toolName, session, payload) ==
  IF toolName = "capture_identity" THEN handleCaptureIdentity(session, payload)
  ELSE IF toolName = "confirm_address" THEN handleConfirmAddress(session, payload)
  ELSE IF toolName = "capture_problem" THEN handleCaptureProblem(session, payload)
  ELSE IF toolName = "begin_scheduling" THEN handleBeginScheduling(session)
  ELSE IF toolName = "propose_slots" THEN handleProposeSlots(session, payload)
  ELSE IF toolName = "book_estimate" THEN handleBookEstimate(session, payload)
  ELSE IF toolName = "request_sms_consent" THEN handleRequestSmsConsent(session, payload)
  ELSE IF toolName = "send_confirmation_sms" THEN handleSendConfirmationSms(session)
  ELSE handleFinalizeAndLog(session)

\* ------------------------------------------------------- dispatchTool
\* The concurrent invocations of dispatchTool.
Dispatchers == {"d1"}

\* The remote operations whose completions are counted.
Counted ==
  {"calendar_book_event", "twilio_send_sms", LOCKED_ESTIMATE_SCHEDULED_STAGE_ID,
   LOCKED_SMS_SENT_STAGE_ID}

\* The contact as the CRM holds it when the call starts: new to the
\* business, with no consent on record.
NewContact == [consent |-> "", consentTsISO |-> "", phone |-> CallerPhone]

\* What getSession(callSid) gave dispatchTool: the stage and the audit log
\* of the session at that moment (the stage is what the line `[tools]
\* Dispatch.` logs), or no session.
NotFound ==
  [present |-> FALSE, state |-> NullState, auditLog |-> << >>, hubspotSet |-> FALSE]

Found(session) ==
  [present |-> TRUE, state |-> session.state, auditLog |-> session.auditLog,
   hubspotSet |-> session.hubspot.set]

\* No request of the dispatcher has failed with the stage moved.
NoFailure == [callSid |-> "", toolName |-> "", payload |-> NoPayload]

\* The arguments of a dispatcher that is not in use.
NoRequest ==
  [callSid |-> "CA1", toolName |-> "capture_identity", payload |-> NoPayload,
   found |-> NotFound]

InitDispatch ==
  /\ hubspotEnabled \in BOOLEAN
  /\ crm \in {[deployment_status |-> st, contact |-> c] :
                st \in DeploymentStatuses, c \in {NewContact}}
  /\ dpc = [d \in Dispatchers |-> "idle"]
  /\ dreq = [d \in Dispatchers |-> NoRequest]
  /\ dloc = [d \in Dispatchers |-> NoLoc]
  /\ dres = [d \in Dispatchers |-> DispatchPending]
  /\ dinv = [d \in Dispatchers |-> {}]
  /\ effects = [op \in Counted |-> 0]
  /\ faults = 0
  /\ lastFailed = [d \in Dispatchers |-> NoFailure]

\* runHubspotIntake(...).then((hubspot) => updateSession(callSid, { hubspot })).
\* With HUBSPOT_ENABLED off the intake resolves to { crmReady: false };
\* otherwise it resolves after its CRM calls, to { crmReady: true, contactId,
\* dealId } or, when one of them failed, to { crmReady: false }. No handler is
\* suspended while session.hubspot is unset, so the copy updateSession puts
\* into the Map is the only session object in use.
HubspotIntakeSettled(callSid, ready) ==
  /\ callSid \in sessions
  /\ ~heap[callSid].hubspot.set
  /\ ready => hubspotEnabled
  /\ heap' = [heap EXCEPT ![callSid] =
                [@ EXCEPT !.hubspot = [set |-> TRUE, crmReady |-> ready,
                                       contactId |-> IF ready THEN ContactId ELSE "",
                                       dealId |-> IF ready THEN DealId ELSE ""],
                          !.updatedAt = now]]
  /\ lastOp' = Op("updateSession", callSid, heap[callSid].state, heap[callSid].state, TRUE)
  /\ UNCHANGED <<bootVars, ckVars, dispVars, sessions, callFinalized, now, idpVars, ctVars, relay>>


\* The synchronous part of a handler or of a continuation has ended with
\* step: the session object is as the part left it, and dispatchTool
\* returns, suspends at the next await, or enters its catch, where the
\* tools of alertEventTypeByTool await alertCritical.
Advance(d, callSid, toolName, step, invoked) ==
  LET out == step.out
      caught == out.kind = "throw" /\ toolName \in AlertedTools
  IN /\ heap' = [heap EXCEPT ![callSid] = step.session]
     /\ lastOp' = IF step.session.state # heap[callSid].state
                    THEN Op("transition", callSid, heap[callSid].state,
                            step.session.state, TRUE)
                    ELSE lastOp
     /\ sessions' = IF out.kind = "ok" /\ toolName = "finalize_and_log"
                      THEN sessions \ {callSid}
                      ELSE sessions
     /\ dpc' = [dpc EXCEPT ![d] = IF out.kind = "await" THEN out.next
                                  ELSE IF caught THEN "catch_alert"
                                  ELSE "done"]
     /\ dloc' = [dloc EXCEPT ![d] =
                   IF out.kind = "await" THEN out.loc
                   ELSE IF caught THEN [NoLoc EXCEPT !.error = out.code,
                                                     !.details = out.details]
                   ELSE NoLoc]
     /\ dres' = [dres EXCEPT ![d] =
                   IF out.kind = "ok" THEN success(toolName, step.session, out.data)
                   ELSE IF out.kind = "error" THEN buildError(toolName, out.code, {})
                   ELSE IF out.kind = "throw" /\ ~caught
                     THEN buildError(toolName, out.code, out.details)
                   ELSE DispatchPending]
     /\ dinv' = [dinv EXCEPT ![d] = invoked \cup out.invoked]

\* A refusal that raises an alert on its way out.
RefuseAlerting(d, toolName, code) ==
  /\ dpc' = [dpc EXCEPT ![d] = "done"]
  /\ dloc' = [dloc EXCEPT ![d] = NoLoc]
  /\ dres' = [dres EXCEPT ![d] = buildError(toolName, code, {})]
  /\ dinv' = [dinv EXCEPT ![d] = {"alert"}]

\* dispatchTool returns an error before it has a session or a handler.
Refuse(d, toolName, code) ==
  /\ dpc' = [dpc EXCEPT ![d] = "done"]
  /\ dloc' = [dloc EXCEPT ![d] = NoLoc]
  /\ dres' = [dres EXCEPT ![d] = buildError(toolName, code, {})]
  /\ dinv' = [dinv EXCEPT ![d] = {}]

\* dispatchTool({ callSid, toolName, payload }) up to its first await on a
\* collaborator: touchSession, getSession, the tests of the tool name, the
\* part of enforceDeploymentGate before getCompanyById and, for a tool that
\* is not gated, the handler up to its first await.
DispatchBegin(d, callSid, toolName, payload) ==
  /\ Listening
  /\ dpc[d] = "idle"
  /\ dreq' = [dreq EXCEPT ![d] = [callSid |-> callSid, toolName |-> toolName,
                                  payload |-> payload,
                                  found |-> IF callSid \in sessions
                                              THEN Found(heap[callSid])
                                              ELSE NotFound]]
  /\ IF callSid \notin sessions
       THEN /\ Refuse(d, toolName, "session_not_found")
            /\ UNCHANGED <<heap, lastOp, sessions>>
     ELSE IF ~includes(ALLOWED_TOOLS, toolName) \/ toolName \notin HandledTools
       THEN /\ Refuse(d, toolName, IF ~includes(ALLOWED_TOOLS, toolName)
                                    THEN "invalid_tool" ELSE "not_implemented")
            /\ heap' = [heap EXCEPT ![callSid] = touchSession(@, now)]
            /\ lastOp' = Op("touch", callSid, heap[callSid].state, heap[callSid].state, TRUE)
            /\ UNCHANGED sessions
     ELSE IF includes(GATED_TOOLS, toolName)
       THEN IF ~hubspotEnabled \/ ~heap[callSid].hubspot.crmReady
              THEN Advance(d, callSid, toolName,
                           Step(touchSession(heap[callSid], now),
                                ReturnError("crm_not_ready")), {})
              ELSE Advance(d, callSid, toolName,
                           Step(touchSession(heap[callSid], now),
                                Await("gate", NoLoc, {"crm"})), {})
     ELSE Advance(d, callSid, toolName,
                  handlers(toolName, touchSession(heap[callSid], now), payload), {})
  /\ UNCHANGED <<bootVars, ckVars, hubspotEnabled, lastFailed, crm, effects, faults, callFinalized, now,
                 idpVars, ctVars, relay>>

\* hubspotClient.getCompanyById settled: assertDeploymentAllowed writes
\* session.deployment, and the handler runs when the gate allows the tool.
GateSettled(d, resolved) ==
  /\ dpc[d] = "gate"
  /\ ~resolved => MayFail
  /\ faults' = IF resolved THEN faults ELSE faults + 1
  /\ LET callSid == dreq[d].callSid
         toolName == dreq[d].toolName
         session == heap[callSid]
         callerPhoneE164 == IF session.contact.phone # "" THEN session.contact.phone
                            ELSE session.callerPhone
         gate == assertDeploymentAllowed(callerPhoneE164, crm.deployment_status)
         gated == [session EXCEPT !.deployment =
                                    [set |-> TRUE, status |-> crm.deployment_status,
                                     classification |-> gate.classification,
                                     allowed |-> gate.allowed, reason |-> gate.reason,
                                     isTester |-> gate.isTester]]
     IN IF ~resolved
          THEN Advance(d, callSid, toolName, Step(session, Throw("hubspot_api_error", {})),
                       dinv[d])
        ELSE IF ~gate.allowed
          THEN Advance(d, callSid, toolName, Step(gated, ReturnError(gate.code)), dinv[d])
        ELSE Advance(d, callSid, toolName, handlers(toolName, gated, dreq[d].payload),
                     dinv[d])
  /\ UNCHANGED <<bootVars, ckVars, hubspotEnabled, lastFailed, crm, dreq, effects, callFinalized, now,
                 idpVars, ctVars, relay>>

\* A wrapped call of the handler of d settled with w: the table is as the
\* call left it, the completion is counted, and the collaborator was
\* reached when fn was called.
Wrapped(d, w, operation, collaborator) ==
  /\ db' = w.db
  /\ effects' = IF w.effect /\ operation \in Counted
                  THEN [effects EXCEPT ![operation] = @ + 1]
                  ELSE effects
  /\ faults' = IF w.value.tag = "object" THEN faults ELSE faults + 1
  /\ UNCHANGED <<bootVars, ckVars, hubspotEnabled, lastFailed, dreq, callFinalized, now,
                 idpEnabled, storeFaulty, pc, key, hit, returned, fnCalls, fnEffects,
                 resolvedOnce, lastOutcome, ctVars, relay>>

\* What dinv[d] becomes when the wrapped call settled with w.
Reached(d, w, collaborator) == dinv[d] \cup (IF w.executed THEN {collaborator} ELSE {})

\* The remote operation can be carried out once more.
MayResolve(operation) == operation \in Counted => effects[operation] < MaxFnCalls

\* capture_identity: upsertContact settled.
CaptureIdentityUpserted(d) ==
  /\ dpc[d] = "ci_upsert"
  /\ LET callSid == dreq[d].callSid
     IN \E w \in Within(Settlements(db, upsertContactKey(callSid, dloc[d].phone),
                             [id |-> ContactId], TRUE)) :
          /\ Advance(d, callSid, dreq[d].toolName,
                     Step(heap[callSid],
                          Settle1(w, Data("contactCaptured", NoBooking, ""))),
                     Reached(d, w, "crm"))
          /\ Wrapped(d, w, "hubspot_upsert_contact", "crm")
          /\ crm' = crm

\* capture_problem: logEngagement settled.
CaptureProblemLogged(d) ==
  /\ dpc[d] = "cp_log"
  /\ LET callSid == dreq[d].callSid
     IN \E w \in Within(Settlements(db, logEngagementKey(callSid, heap[callSid], "Problem captured"),
                             [id |-> "note"], TRUE)) :
          /\ Advance(d, callSid, dreq[d].toolName,
                     Step(heap[callSid],
                          Settle1(w, Data("problemCaptured", NoBooking, ""))),
                     Reached(d, w, "crm"))
          /\ Wrapped(d, w, "hubspot_log_engagement", "crm")
          /\ crm' = crm

\* propose_slots: calendarClient.proposeSlots settled.
ProposeSlotsSettled(d) ==
  /\ dpc[d] = "ps_propose"
  /\ LET callSid == dreq[d].callSid
     IN \E resolved \in BOOLEAN, free \in 0..Len(CalendarSlots) :
          /\ ~resolved => free = 0 /\ MayFail
          /\ faults' = IF resolved THEN faults ELSE faults + 1
          /\ Advance(d, callSid, dreq[d].toolName,
                     handleProposeSlotsSettled(heap[callSid], dreq[d].payload, resolved, free),
                     dinv[d])
  /\ UNCHANGED <<bootVars, ckVars, hubspotEnabled, lastFailed, crm, dreq, effects, callFinalized, now,
                 idpVars, ctVars, relay>>

\* book_estimate: bookSlot settled.
BookEstimateBooked(d) ==
  /\ dpc[d] = "be_book"
  /\ LET callSid == dreq[d].callSid
         slot == dloc[d].slot
     IN \E w \in Within(Settlements(db, bookSlotKey(callSid, heap[callSid], slot),
                             [calendarEventId |->
                                "evt" \o ToString(effects["calendar_book_event"] + 1),
                              startISO |-> slot, endISO |-> endISO(slot)],
                             MayResolve("calendar_book_event"))) :
          /\ Advance(d, callSid, dreq[d].toolName,
                     handleBookEstimateBooked(heap[callSid], dloc[d], w),
                     Reached(d, w, "calendar"))
          /\ Wrapped(d, w, "calendar_book_event", "calendar")
          /\ crm' = crm

\* book_estimate: updateDealStage settled.
BookEstimateStaged(d) ==
  /\ dpc[d] = "be_stage"
  /\ LET callSid == dreq[d].callSid
     IN \E w \in Within(Settlements(db, updateDealStageKey(callSid, heap[callSid].hubspot.dealId,
                                                    LOCKED_ESTIMATE_SCHEDULED_STAGE_ID),
                             [id |-> DealId], MayResolve(LOCKED_ESTIMATE_SCHEDULED_STAGE_ID))) :
          /\ Advance(d, callSid, dreq[d].toolName,
                     handleBookEstimateStaged(heap[callSid], dloc[d], w),
                     Reached(d, w, "crm"))
          /\ Wrapped(d, w, LOCKED_ESTIMATE_SCHEDULED_STAGE_ID, "crm")
          /\ crm' = crm

\* book_estimate: logEngagement of the booking settled.
BookEstimateLogged(d) ==
  /\ dpc[d] = "be_log"
  /\ LET callSid == dreq[d].callSid
         session == heap[callSid]
     IN \E w \in Within(Settlements(db, logEngagementKey(callSid, session,
                                                  "Estimate booked for "
                                                    \o session.booking.startISO \o " "
                                                    \o session.booking.calendarEventId),
                             [id |-> "note"], TRUE)) :
          /\ Advance(d, callSid, dreq[d].toolName,
                     handleBookEstimateLogged(session, dloc[d], w),
                     Reached(d, w, "crm"))
          /\ Wrapped(d, w, "hubspot_log_engagement", "crm")
          /\ crm' = crm

\* An alertCritical awaited by a handler or by dispatchTool settled with
\* alert.
Alerted(d, alert) ==
  /\ alert.threw => MayFail
  /\ faults' = IF alert.threw THEN faults + 1 ELSE faults
  /\ UNCHANGED <<bootVars, ckVars, hubspotEnabled, lastFailed, crm, dreq, effects, callFinalized, now,
              idpVars, ctVars, relay>>

\* book_estimate: alertCritical of the handler's catch settled.
BookEstimateAlerted(d) ==
  /\ dpc[d] = "be_alert"
  /\ LET callSid == dreq[d].callSid
     IN \E alert \in Alerts :
          /\ Advance(d, callSid, dreq[d].toolName,
                     handleBookEstimateAlerted(heap[callSid], dloc[d], alert),
                     dinv[d] \cup alert.invoked)
          /\ Alerted(d, alert)

\* book_estimate: logEngagement of the failure settled.
BookEstimateFailureLogged(d) ==
  /\ dpc[d] = "be_faillog"
  /\ LET callSid == dreq[d].callSid
     IN \E w \in Within(Settlements(db, logEngagementKey(callSid, heap[callSid],
                                                  "Calendar booking failed: " \o dloc[d].error),
                             [id |-> "note"], TRUE)) :
          /\ Advance(d, callSid, dreq[d].toolName,
                     handleBookEstimateFailureLogged(heap[callSid], dloc[d], w),
                     Reached(d, w, "crm"))
          /\ Wrapped(d, w, "hubspot_log_engagement", "crm")
          /\ crm' = crm

\* request_sms_consent: updateContactConsent settled; the CRM holds the
\* consent once the PATCH was carried out.
RequestSmsConsentUpdated(d) ==
  /\ dpc[d] = "rc_update"
  /\ LET callSid == dreq[d].callSid
         session == heap[callSid]
     IN \E w \in Within(Settlements(db, updateContactConsentKey(callSid, session.hubspot.contactId,
                                                         dloc[d].consentTsISO),
                             [id |-> ContactId], TRUE)) :
          /\ Advance(d, callSid, dreq[d].toolName,
                     handleRequestSmsConsentUpdated(session, dloc[d], w),
                     Reached(d, w, "crm"))
          /\ Wrapped(d, w, "hubspot_update_sms_consent", "crm")
          /\ crm' = IF w.effect
                      THEN [crm EXCEPT !.contact.consent = "true",
                                       !.contact.consentTsISO = dloc[d].consentTsISO]
                      ELSE crm

\* request_sms_consent: logEngagement of the refusal settled.
RequestSmsConsentLogged(d) ==
  /\ dpc[d] = "rc_log"
  /\ LET callSid == dreq[d].callSid
     IN \E w \in Within(Settlements(db, logEngagementKey(callSid, heap[callSid],
                                                  "Customer declined SMS consent."),
                             [id |-> "note"], TRUE)) :
          /\ Advance(d, callSid, dreq[d].toolName,
                     Step(heap[callSid], Settle1(w, Data("consent:false", NoBooking, ""))),
                     Reached(d, w, "crm"))
          /\ Wrapped(d, w, "hubspot_log_engagement", "crm")
          /\ crm' = crm

\* send_confirmation_sms: getContactById of readConsentState settled.
SendConfirmationSmsConsentRead(d, resolved) ==
  /\ dpc[d] = "ss_consent"
  /\ ~resolved => MayFail
  /\ faults' = IF resolved THEN faults ELSE faults + 1
  /\ LET callSid == dreq[d].callSid
     IN Advance(d, callSid, dreq[d].toolName,
                handleSendConfirmationSmsConsentRead(heap[callSid], resolved, crm.contact),
                dinv[d])
  /\ UNCHANGED <<bootVars, ckVars, hubspotEnabled, lastFailed, crm, dreq, effects, callFinalized, now,
                 idpVars, ctVars, relay>>

\* send_confirmation_sms: withIdempotency around twilioSms.sendSms settled.
SendConfirmationSmsSent(d) ==
  /\ dpc[d] = "ss_send"
  /\ LET callSid == dreq[d].callSid
         session == heap[callSid]
     IN \E w \in Within(Settlements(db, sendSmsKey(callSid, dloc[d].phone, session.booking.startISO,
                                            session.hubspot.dealId),
                             [messageSid |->
                                "SM" \o ToString(effects["twilio_send_sms"] + 1)],
                             MayResolve("twilio_send_sms"))) :
          /\ Advance(d, callSid, dreq[d].toolName,
                     handleSendConfirmationSmsSent(session, dloc[d], w),
                     Reached(d, w, "sms"))
          /\ Wrapped(d, w, "twilio_send_sms", "sms")
          /\ crm' = crm

\* send_confirmation_sms: updateDealStage settled.
SendConfirmationSmsStaged(d) ==
  /\ dpc[d] = "ss_stage"
  /\ LET callSid == dreq[d].callSid
     IN \E w \in Within(Settlements(db, updateDealStageKey(callSid, heap[callSid].hubspot.dealId,
                                                    LOCKED_SMS_SENT_STAGE_ID),
                             [id |-> DealId], MayResolve(LOCKED_SMS_SENT_STAGE_ID))) :
          /\ Advance(d, callSid, dreq[d].toolName,
                     handleSendConfirmationSmsStaged(heap[callSid], dloc[d], w),
                     Reached(d, w, "crm"))
          /\ Wrapped(d, w, LOCKED_SMS_SENT_STAGE_ID, "crm")
          /\ crm' = crm

\* send_confirmation_sms: logEngagement of the send settled.
SendConfirmationSmsLogged(d) ==
  /\ dpc[d] = "ss_log"
  /\ LET callSid == dreq[d].callSid
     IN \E w \in Within(Settlements(db, logEngagementKey(callSid, heap[callSid],
                                                  "SMS sent (" \o dloc[d].messageSid \o ")"),
                             [id |-> "note"], TRUE)) :
          /\ Advance(d, callSid, dreq[d].toolName,
                     handleSendConfirmationSmsLogged(heap[callSid], dloc[d], w),
                     Reached(d, w, "crm"))
          /\ Wrapped(d, w, "hubspot_log_engagement", "crm")
          /\ crm' = crm

\* send_confirmation_sms: logEngagement of the failure settled.
SendConfirmationSmsFailureLogged(d) ==
  /\ dpc[d] = "ss_faillog"
  /\ LET callSid == dreq[d].callSid
     IN \E w \in Within(Settlements(db, logEngagementKey(callSid, heap[callSid],
                                                  "SMS send failed: " \o dloc[d].error),
                             [id |-> "note"], TRUE)) :
          /\ Advance(d, callSid, dreq[d].toolName,
                     handleSendConfirmationSmsFailureLogged(heap[callSid], dloc[d], w),
                     Reached(d, w, "crm"))
          /\ Wrapped(d, w, "hubspot_log_engagement", "crm")
          /\ crm' = crm

\* send_confirmation_sms: alertCritical of the handler's catch settled.
SendConfirmationSmsAlerted(d) ==
  /\ dpc[d] = "ss_alert"
  /\ LET callSid == dreq[d].callSid
     IN \E alert \in Alerts :
          /\ Advance(d, callSid, dreq[d].toolName,
                     handleSendConfirmationSmsAlerted(heap[callSid], dloc[d], alert),
                     dinv[d] \cup alert.invoked)
          /\ Alerted(d, alert)

\* finalize_and_log: logEngagement settled.
FinalizeAndLogLogged(d) ==
  /\ dpc[d] = "fl_log"
  /\ LET callSid == dreq[d].callSid
     IN \E w \in Within(Settlements(db, logEngagementKey(callSid, heap[callSid], "Call ended."),
                             [id |-> "note"], TRUE)) :
          /\ Advance(d, callSid, dreq[d].toolName,
                     handleFinalizeAndLogLogged(heap[callSid], w),
                     Reached(d, w, "crm"))
          /\ Wrapped(d, w, "hubspot_log_engagement", "crm")
          /\ crm' = crm

\* dispatchTool resolved to ok:false although the handler had moved the
\* session to another stage than the one it was found at.
FailedAfterTransition(d) ==
  /\ dreq[d].found.present
  /\ dres[d].tag = "resolved"
  /\ ~dres[d].ok
  /\ heap[dreq[d].callSid].state # dreq[d].found.state

\* The caller of dispatchTool has its answer: the route POST
\* /internal/tools/:callSid sends the result as the response, and nothing
\* of the invocation is left.
ToolRouteRespond(d) ==
  /\ dpc[d] = "done"
  /\ dpc' = [dpc EXCEPT ![d] = "idle"]
  /\ dreq' = [dreq EXCEPT ![d] = NoRequest]
  /\ dloc' = [dloc EXCEPT ![d] = NoLoc]
  /\ dres' = [dres EXCEPT ![d] = DispatchPending]
  /\ dinv' = [dinv EXCEPT ![d] = {}]
  /\ lastFailed' = [lastFailed EXCEPT ![d] =
                      IF FailedAfterTransition(d)
                        THEN [callSid |-> dreq[d].callSid, toolName |-> dreq[d].toolName,
                              payload |-> dreq[d].payload]
                        ELSE NoFailure]
  /\ UNCHANGED <<bootVars, ckVars, hubspotEnabled, crm, effects, faults, now, idpVars,
                 smVars, ctVars, relay>>

\* alertEventTypeByTool of the catch of dispatchTool
alertEventTypeByTool(toolName) ==
  IF toolName = "book_estimate" THEN "calendar_booking_failure"
  ELSE IF toolName = "send_confirmation_sms" THEN "twilio_stream_failure"
  ELSE "hubspot_write_failure"

\* The catch of dispatchTool: alertCritical settled. When it resolved the
\* error becomes the result; when it rejected, nothing catches the
\* rejection and it is what dispatchTool settles with.
DispatchCatchAlerted(d) ==
  /\ dpc[d] = "catch_alert"
  /\ LET callSid == dreq[d].callSid
         toolName == dreq[d].toolName
     IN \E alert \in Alerts :
          /\ dpc' = [dpc EXCEPT ![d] = "done"]
          /\ dres' = [dres EXCEPT ![d] =
                        IF alert.threw THEN DispatchRejected(toolName)
                        ELSE buildError(toolName, dloc[d].error, dloc[d].details)]
          /\ dloc' = [dloc EXCEPT ![d] = NoLoc]
          /\ dinv' = [dinv EXCEPT ![d] = @ \cup alert.invoked]
          /\ Alerted(d, alert)
          /\ UNCHANGED <<heap, sessions, lastOp>>

\* ------------------------------------------------ parts that stay at rest
\* A process that has started: the store is initialized exactly when
\* idempotency is enabled (IDP_ENABLED=false is accepted outside production).
Booted ==
  /\ nodeEnv = "development"
  /\ boot = "listening"
  /\ storeInit = idpEnabled
  /\ janitor = TRUE

IdleCanonical ==
  /\ ckA = Request(<<"CA1">>, <<"twilio_send_sms">>, ObjV(<< >>))
  /\ ckB = Request(<<"CA1">>, <<"twilio_send_sms">>, ObjV(<< >>))
  /\ ckResult = "pending"

IdleDispatch ==
  /\ hubspotEnabled = FALSE
  /\ crm = << >>
  /\ dpc = << >>
  /\ dreq = << >>
  /\ dloc = << >>
  /\ dres = << >>
  /\ dinv = << >>
  /\ effects = << >>
  /\ faults = 0
  /\ lastFailed = << >>

\* No stream is connected.
IdleRelay == relay = << >>

IdleIdempotency ==
  /\ InitIdempotency
  /\ idpEnabled = TRUE
  /\ storeFaulty = FALSE

IdleMatrix ==
  /\ ctFrom = NullState
  /\ ctTo = "CALL_STARTED"
  /\ ctResult = "pending"

\* The wall clock advances. The idempotency specifications leave the clock
\* at rest: created_at is written and never read.
Tick ==
  /\ now < MaxClock
  /\ now' = now + 1
  /\ UNCHANGED <<bootVars, ckVars, dispVars, idpVars, smVars, ctVars, relay>>

\* ---- concurrent invocations (one per caller, any interleaving of blocks)
Init ==
  /\ InitIdempotency
  /\ InitSessions
  /\ IdleMatrix
  /\ Booted
  /\ IdleCanonical
  /\ IdleDispatch
  /\ IdleRelay
  /\ now = 0

Next ==
  \/ \E c \in Callers, k \in Keys : withIdempotencyCall(c, k)
  \/ \E c \in Callers, k \in Keys : withIdempotencyCallStorageError(c, k)
  \/ \E c \in Callers, k \in Keys : withIdempotencyBypass(c, k)
  \/ \E c \in Callers : IdempotencyHit(c)
  \/ \E c \in Callers : InvokeFn(c)
  \/ \E c \in Callers, r \in Results : FnResolved(c, r)
  \/ \E c \in Callers, r \in Results : FnResolvedStorageError(c, r)
  \/ \E c \in Callers : FnRejected(c)

SpecIdempotency == Init /\ [][Next]_vars

\* ---- sequential invocations: a call starts only when every other has settled
AllSettled == \A c \in Callers : Settled(c)

NextSeq ==
  \/ \E c \in Callers, k \in Keys : AllSettled /\ withIdempotencyCall(c, k)
  \/ \E c \in Callers, k \in Keys : AllSettled /\ withIdempotencyCallStorageError(c, k)
  \/ \E c \in Callers, k \in Keys : AllSettled /\ withIdempotencyBypass(c, k)
  \/ \E c \in Callers : IdempotencyHit(c)
  \/ \E c \in Callers : InvokeFn(c)
  \/ \E c \in Callers, r \in Results : FnResolved(c, r)
  \/ \E c \in Callers, r \in Results : FnResolvedStorageError(c, r)
  \/ \E c \in Callers : FnRejected(c)

SpecIdempotencySeq == Init /\ [][NextSeq]_vars

\* ---- the call state machine driven by the relay and by reference holders
InitStateMachine ==
  /\ IdleIdempotency
  /\ InitSessions
  /\ IdleMatrix
  /\ Booted
  /\ IdleCanonical
  /\ IdleDispatch
  /\ IdleRelay
  /\ now = 0

NextStateMachine ==
  \/ \E c \in CallSids : TwilioStart(c)
  \/ \E c \in CallSids, n \in ToValues : ToolTransition(c, n)
  \/ \E c \in CallSids : TouchSession(c)
  \/ \E c \in CallSids : finalizeCall(c)
  \/ \E c \in CallSids : endSession(c)
  \/ Tick

SpecStateMachine == InitStateMachine /\ [][NextStateMachine]_vars

\* ---- canTransition evaluated on each pair of the matrix
InitCanTransition ==
  /\ IdleIdempotency
  /\ InitSessions
  /\ InitMatrix
  /\ Booted
  /\ IdleCanonical
  /\ IdleDispatch
  /\ IdleRelay
  /\ now = 0

NextCanTransition == Evaluate

SpecCanTransition == InitCanTransition /\ [][NextCanTransition]_vars

\* ---- process start followed by sequential invocations of withIdempotency
InitBootstrap ==
  /\ InitIdempotency
  /\ InitSessions
  /\ IdleMatrix
  /\ InitBoot
  /\ IdleCanonical
  /\ IdleDispatch
  /\ IdleRelay
  /\ now = 0

NextBootstrap ==
  \/ bootstrap
  \/ serverListen
  \/ \E c \in Callers, k \in Keys : Listening /\ AllSettled /\ withIdempotencyCall(c, k)
  \/ \E c \in Callers, k \in Keys :
       Listening /\ AllSettled /\ withIdempotencyCallStorageError(c, k)
  \/ \E c \in Callers, k \in Keys : Listening /\ AllSettled /\ withIdempotencyBypass(c, k)
  \/ \E c \in Callers : IdempotencyHit(c)
  \/ \E c \in Callers : InvokeFn(c)
  \/ \E c \in Callers, r \in Results : FnResolved(c, r)
  \/ \E c \in Callers, r \in Results : FnResolvedStorageError(c, r)
  \/ \E c \in Callers : FnRejected(c)

SpecBootstrap == InitBootstrap /\ [][NextBootstrap]_vars

\* ---- buildIdempotencyKey evaluated on each pair of requests
InitCanonical ==
  /\ IdleIdempotency
  /\ InitSessions
  /\ IdleMatrix
  /\ Booted
  /\ InitCompareKeys
  /\ IdleDispatch
  /\ IdleRelay
  /\ now = 0

NextCanonical == CompareKeys

SpecCanonical == InitCanonical /\ [][NextCanonical]_vars


\* ---- tool calls of one call: the stream starts, the CRM intake settles,
\* tools are dispatched one after the other until finalize_and_log ends the
\* session
InitDispatchSpec ==
  /\ InitIdempotency
  /\ idpEnabled
  /\ InitSessions
  /\ IdleMatrix
  /\ Booted
  /\ IdleCanonical
  /\ InitDispatch
  /\ IdleRelay
  /\ now = 0

NextDispatch ==
  \/ \E c \in CallSids : TwilioStart(c)
  \/ \E c \in CallSids, ready \in BOOLEAN : HubspotIntakeSettled(c, ready)
  \/ \E d \in Dispatchers, c \in CallSids, t \in ToolNames :
       \E payload \in Payloads(t) : DispatchBegin(d, c, t, payload)
  \/ \E d \in Dispatchers, resolved \in BOOLEAN : GateSettled(d, resolved)
  \/ \E d \in Dispatchers : CaptureIdentityUpserted(d)
  \/ \E d \in Dispatchers : CaptureProblemLogged(d)
  \/ \E d \in Dispatchers : ProposeSlotsSettled(d)
  \/ \E d \in Dispatchers : BookEstimateBooked(d)
  \/ \E d \in Dispatchers : BookEstimateStaged(d)
  \/ \E d \in Dispatchers : BookEstimateLogged(d)
  \/ \E d \in Dispatchers : BookEstimateAlerted(d)
  \/ \E d \in Dispatchers : BookEstimateFailureLogged(d)
  \/ \E d \in Dispatchers : RequestSmsConsentUpdated(d)
  \/ \E d \in Dispatchers : RequestSmsConsentLogged(d)
  \/ \E d \in Dispatchers, resolved \in BOOLEAN : SendConfirmationSmsConsentRead(d, resolved)
  \/ \E d \in Dispatchers : SendConfirmationSmsSent(d)
  \/ \E d \in Dispatchers : SendConfirmationSmsStaged(d)
  \/ \E d \in Dispatchers : SendConfirmationSmsLogged(d)
  \/ \E d \in Dispatchers : SendConfirmationSmsFailureLogged(d)
  \/ \E d \in Dispatchers : SendConfirmationSmsAlerted(d)
  \/ \E d \in Dispatchers : FinalizeAndLogLogged(d)
  \/ \E d \in Dispatchers : DispatchCatchAlerted(d)
  \/ \E d \in Dispatchers : ToolRouteRespond(d)

SpecDispatch == InitDispatchSpec /\ [][NextDispatch]_vars

\* ---- book_estimate on the sessions scripts/smoke_pr5_booking.js builds: the
\* script creates the session, applies the transition to CALL_STARTED and
\* then writes hubspot, problem, the proposed slots and the stage SCHEDULING
\* into the object the store holds, without going through the tools
SmokeHubspots ==
  {NoHubspot,
   [set |-> TRUE, crmReady |-> FALSE, contactId |-> "", dealId |-> ""],
   [set |-> TRUE, crmReady |-> TRUE, contactId |-> "", dealId |-> DealId],
   [set |-> TRUE, crmReady |-> TRUE, contactId |-> ContactId, dealId |-> ""],
   [set |-> TRUE, crmReady |-> TRUE, contactId |-> ContactId, dealId |-> DealId]}

SmokeSession(callSid, hubspot, proposedSlots) ==
  [transition(createSession(callSid, 0), "CALL_STARTED", "smoke:start", 0).session
     EXCEPT !.hubspot = hubspot,
            !.problem = TRUE,
            !.scheduling = [set |-> proposedSlots # << >>, proposedSlots |-> proposedSlots],
            !.state = "SCHEDULING"]

InitBookingSmoke ==
  /\ InitIdempotency
  /\ idpEnabled
  /\ \E hubspot \in SmokeHubspots, proposedSlots \in {<< >>, CalendarSlots} :
       heap = [c \in CallSids |-> SmokeSession(c, hubspot, proposedSlots)]
  /\ sessions = CallSids
  /\ callFinalized = [c \in CallSids |-> FALSE]
  /\ lastOp = Op("none", "none", NullState, NullState, TRUE)
  /\ IdleMatrix
  /\ Booted
  /\ IdleCanonical
  /\ InitDispatch
  /\ IdleRelay
  /\ now = 0

NextBookingSmoke ==
  \/ \E d \in Dispatchers, c \in CallSids :
       \E payload \in Payloads("book_estimate") : DispatchBegin(d, c, "book_estimate", payload)
  \/ \E d \in Dispatchers, resolved \in BOOLEAN : GateSettled(d, resolved)
  \/ \E d \in Dispatchers : BookEstimateBooked(d)
  \/ \E d \in Dispatchers : BookEstimateStaged(d)
  \/ \E d \in Dispatchers : BookEstimateLogged(d)
  \/ \E d \in Dispatchers : BookEstimateAlerted(d)
  \/ \E d \in Dispatchers : BookEstimateFailureLogged(d)
  \/ \E d \in Dispatchers : DispatchCatchAlerted(d)
  \/ \E d \in Dispatchers : ToolRouteRespond(d)

SpecBookingSmoke == InitBookingSmoke /\ [][NextBookingSmoke]_vars

\* ---- the gated tools on the session scripts/smoke_pr7_gating.js builds
\* (created, CRM ready, stage PROBLEM_CAPTURED written into the object), for
\* every deployment status and caller; no collaborator and no store call
\* fails
GateStatuses ==
  {"live", " Live ", "not_deployed", "provisioning", "awaiting_forwarding",
   "suspended", "cancelled", "paused", ""}

GateCallers == {"+17162508937", "+1 (716) 250-8937", CallerPhone}

GateContactPhones == {"", "+17165471378", OtherPhone}

GateSession(callSid, callerPhone, contactPhone) ==
  [createSession(callSid, 0)
     EXCEPT !.callerPhone = callerPhone,
            !.contact = [set |-> contactPhone # "", phone |-> contactPhone],
            !.hubspot = [set |-> TRUE, crmReady |-> TRUE, contactId |-> ContactId,
                         dealId |-> DealId],
            !.state = "PROBLEM_CAPTURED"]

InitGate ==
  /\ InitIdempotency
  /\ idpEnabled
  /\ \E callerPhone \in GateCallers, contactPhone \in GateContactPhones :
       heap = [c \in CallSids |-> GateSession(c, callerPhone, contactPhone)]
  /\ sessions = CallSids
  /\ callFinalized = [c \in CallSids |-> FALSE]
  /\ lastOp = Op("none", "none", NullState, NullState, TRUE)
  /\ IdleMatrix
  /\ Booted
  /\ IdleCanonical
  /\ hubspotEnabled = TRUE
  /\ crm \in {[deployment_status |-> st, contact |-> NewContact] : st \in GateStatuses}
  /\ dpc = [d \in Dispatchers |-> "idle"]
  /\ dreq = [d \in Dispatchers |-> NoRequest]
  /\ dloc = [d \in Dispatchers |-> NoLoc]
  /\ dres = [d \in Dispatchers |-> DispatchPending]
  /\ dinv = [d \in Dispatchers |-> {}]
  /\ effects = [op \in Counted |-> 0]
  /\ faults = MaxFaults
  /\ lastFailed = [d \in Dispatchers |-> NoFailure]
  /\ IdleRelay
  /\ now = 0

NextGate ==
  \/ \E d \in Dispatchers, c \in CallSids, i \in DOMAIN GATED_TOOLS :
       DispatchBegin(d, c, GATED_TOOLS[i], NoPayload)
  \/ \E d \in Dispatchers, resolved \in BOOLEAN : GateSettled(d, resolved)
  \/ \E d \in Dispatchers : DispatchCatchAlerted(d)
  \/ \E d \in Dispatchers : ToolRouteRespond(d)

SpecGate == InitGate /\ [][NextGate]_vars

\* ======================================================================
\* Claims on the idempotency store and the side-effect executor
\* ======================================================================

\* A step in which caller c leaves position p for position q.
Moves(c, p, q) == pc[c] = p /\ pc'[c] = q

\* Two results are the same record for the store when they serialize alike.
SameJSON(v, w) ==
  /\ v.tag = "object"
  /\ w.tag = "object"
  /\ JSONstringify(v.value) = JSONstringify(w.value)

\* C1: with idempotency enabled and the store working, under sequential
\* invocations the wrapped function is called only when no record exists for
\* the key and no invocation with the key has resolved yet; an invocation
\* that settles after one has resolved returns the stored result and leaves
\* the store and the call counts alone; the effect completes at most once
\* per key.
C1_ExecutedOnlyWithoutRecord ==
  /\ []((idpEnabled /\ ~storeFaulty) => \A k \in Keys : fnEffects[k] <= 1)
  /\ [][(idpEnabled /\ ~storeFaulty) =>
         /\ \A k \in Keys :
              fnCalls'[k] > fnCalls[k] => (k \notin DOMAIN db /\ ~resolvedOnce[k])
         /\ \A c \in Callers :
              (pc[c] # "done" /\ pc'[c] = "done" /\ resolvedOnce[key[c]]) =>
                /\ returned'[c] = getIdempotency(db, key[c])
                /\ Truthy(returned'[c])
                /\ fnCalls' = fnCalls
                /\ db' = db]_vars

\* C1 witness: two invocations with one key have resolved one after the
\* other and the function ran once.
C1_Witness ==
  /\ idpEnabled /\ ~storeFaulty
  /\ \E k \in Keys :
       /\ fnCalls[k] = 1
       /\ \A c \in Callers : pc[c] = "done" /\ key[c] = k /\ Truthy(returned[c])

\* C2: two invocations with the same key never have the wrapped function in
\* flight at the same time (the function is executed at most once when the
\* second invocation starts before the first has written its record).
C2_ConcurrentExecutesOnce ==
  idpEnabled =>
    \A c1, c2 \in Callers :
      (c1 # c2 /\ key[c1] = key[c2] /\ pc[c1] = "in_fn") => pc[c2] # "in_fn"

\* C3: two invocations with the same key that have both resolved observe the
\* same result (the caller that lost the write returns the stored result).
C3_LoserReturnsWinnersResult ==
  idpEnabled =>
    \A c1, c2 \in Callers :
      (/\ c1 # c2 /\ key[c1] = key[c2]
       /\ pc[c1] = "done" /\ pc[c2] = "done"
       /\ Truthy(returned[c1]) /\ Truthy(returned[c2]))
      => SameJSON(returned[c1], returned[c2])

\* C8: a record never changes once written: every step keeps every existing
\* row (so getIdempotency keeps returning the first written result), a row
\* that appears is the serialization of the result its writer returned, and
\* a write that finds the row present (the function having resolved) is a
\* no-op that resolves without an error.
C8_RecordImmutable ==
  [][/\ \A k \in DOMAIN db :
          /\ k \in DOMAIN db'
          /\ db'[k] = db[k]
          /\ getIdempotency(db', k) = getIdempotency(db, k)
     /\ \A k \in (DOMAIN db') \ (DOMAIN db) :
          \E c \in Callers :
            /\ Moves(c, "in_fn", "done") /\ key[c] = k
            /\ SameJSON(returned'[c], getIdempotency(db', k))
     /\ \A c \in Callers :
          (/\ Moves(c, "in_fn", "done") /\ key[c] \in DOMAIN db
           /\ fnEffects'[key[c]] > fnEffects[key[c]] /\ ~storeFaulty)
            => Truthy(returned'[c])]_vars

\* C8 witness: a second write with a different result was ignored: two
\* resolved invocations of one key hold different results and the row is
\* the serialization of one of them.
C8_Witness ==
  \E c1, c2 \in Callers :
    /\ c1 # c2 /\ key[c1] = key[c2] /\ key[c1] \in DOMAIN db
    /\ pc[c1] = "done" /\ pc[c2] = "done"
    /\ Truthy(returned[c1]) /\ Truthy(returned[c2])
    /\ ~SameJSON(returned[c1], returned[c2])
    /\ SameJSON(returned[c1], getIdempotency(db, key[c1]))

\* C9: when the wrapped function throws, the invocation rejects with that
\* error and writes nothing; under sequential invocations the key then has
\* no record, so the next invocation with the key misses and calls the
\* function again.
C9_ThrowIsNotRecorded ==
  /\ [](\A k \in Keys : lastOutcome[k] = "FnError" => k \notin DOMAIN db)
  /\ [][\A c \in Callers :
         /\ (Moves(c, "in_fn", "done") /\ returned'[c] = Rejected("FnError"))
              => db' = db
         /\ (Settled(c) /\ pc'[c] = "hit_check" /\ lastOutcome[key'[c]] = "FnError")
              => hit'[c] = Null
         /\ (pc[c] = "hit_check" /\ hit[c] = Null /\ pc'[c] # pc[c])
              => (pc'[c] = "in_fn" /\ fnCalls'[key[c]] = fnCalls[key[c]] + 1)]_vars

\* C9 witness: the function is running again after the previous invocation
\* with the key ended with the function's error.
C9_Witness ==
  \E c \in Callers :
    /\ idpEnabled
    /\ pc[c] = "in_fn"
    /\ lastOutcome[key[c]] = "FnError"
    /\ fnCalls[key[c]] = 2

\* C10: a retry that follows a storage error never runs the wrapped function
\* when the effect behind the key has already completed.
C10_RetryAfterStorageErrorIsSafe ==
  \A c \in Callers :
    (idpEnabled /\ pc[c] = "in_fn" /\ lastOutcome[key[c]] = "StorageError")
      => fnEffects[key[c]] = 0

\* ======================================================================
\* Claims on the call state machine
\* ======================================================================

\* The ordering of the stages as the documentation lists it, pair by pair.
NextInOrder ==
  {<<"CALL_STARTED", "IDENTITY_CHECKED">>, <<"IDENTITY_CHECKED", "ADDRESS_CONFIRMED">>,
   <<"ADDRESS_CONFIRMED", "PROBLEM_CAPTURED">>, <<"PROBLEM_CAPTURED", "SCHEDULING">>,
   <<"SCHEDULING", "BOOKED">>, <<"BOOKED", "CONFIRMED_SMS_SENT">>,
   <<"CONFIRMED_SMS_SENT", "LOGGED_TO_HUBSPOT">>, <<"LOGGED_TO_HUBSPOT", "ESCALATED">>,
   <<"ESCALATED", "CALL_ENDED">>}

LegalByRule(from, to) ==
  \/ from = NullState /\ to = "CALL_STARTED"
  \/ from \in Stages \ {"CALL_ENDED"} /\ from # to /\ to = "CALL_ENDED"
  \/ /\ to = "LOGGED_TO_HUBSPOT"
     /\ from \in {"PROBLEM_CAPTURED", "SCHEDULING", "BOOKED",
                   "CONFIRMED_SMS_SENT", "ESCALATED"}
  \/ <<from, to>> \in NextInOrder

\* C4: on every pair of the matrix (from null or a stage, to a stage) the
\* evaluation of canTransition is true exactly in the four listed cases;
\* self-loops and stage skips are false.
C4_CanTransitionMatrix ==
  (ctResult # "pending" /\ ctFrom \in Stages \cup {NullState} /\ ctTo \in Stages)
    => /\ (ctResult = "true") <=> LegalByRule(ctFrom, ctTo)
       /\ ctFrom = ctTo => ctResult = "false"

\* C4 witness: the fan-in pair ESCALATED -> LOGGED_TO_HUBSPOT, which is not
\* a step forward in the ordering, has been evaluated and is legal.
C4_Witness ==
  ctFrom = "ESCALATED" /\ ctTo = "LOGGED_TO_HUBSPOT" /\ ctResult = "true"

\* C5: ESCALATED is reachable in one legal transition from more than one
\* stage (escalation is a fan-in exception like finalize-to-logged).
C5_EscalationFanIn ==
  (ctResult # "pending" /\ ctTo = "ESCALATED")
    => Cardinality({from \in Stages : canTransition(from, ctTo)}) > 1

\* C6: CALL_ENDED is terminal: a session object whose stage is CALL_ENDED
\* keeps that stage in every step, and every call of transition on it,
\* whoever makes it, fails.
C6_CallEndedIsTerminal ==
  [][\A c \in DOMAIN heap :
       heap[c].state = "CALL_ENDED" =>
         /\ heap'[c].state = "CALL_ENDED"
         /\ (lastOp' # lastOp /\ lastOp'.op = "transition" /\ lastOp'.callSid = c)
              => ~lastOp'.ok]_vars

\* C6 witness: a transition was attempted on an ended session that the store
\* no longer holds, and it failed.
C6_Witness ==
  \E c \in DOMAIN heap :
    /\ heap[c].state = "CALL_ENDED"
    /\ c \notin sessions
    /\ lastOp.op = "transition" /\ lastOp.callSid = c
    /\ lastOp.from = "CALL_ENDED" /\ ~lastOp.ok

\* C7: a call of transition never applies partially: when canTransition
\* rejects the pair the call fails and the session object is unchanged; when
\* it accepts, the call succeeds and in that one step the stage is the next
\* state, updatedAt and lastSeenAt are the current time and the audit log
\* has grown by exactly the entry of this transition.
C7_TransitionIsAtomic ==
  [][\A c \in DOMAIN heap :
       (lastOp' # lastOp /\ lastOp'.op = "transition" /\ lastOp'.callSid = c) =>
         IF canTransition(heap[c].state, lastOp'.to)
           THEN /\ lastOp'.ok
                /\ heap'[c].state = lastOp'.to
                /\ heap'[c].updatedAt = now
                /\ heap'[c].lastSeenAt = now
                /\ Len(heap'[c].auditLog) = Len(heap[c].auditLog) + 1
                /\ SubSeq(heap'[c].auditLog, 1, Len(heap[c].auditLog)) = heap[c].auditLog
                /\ LET e == heap'[c].auditLog[Len(heap'[c].auditLog)]
                   IN /\ e.previousState = heap[c].state
                      /\ e.nextState = lastOp'.to
                      /\ e.ts = now
                /\ heap'[c].createdAt = heap[c].createdAt
           ELSE /\ ~lastOp'.ok
                /\ heap'[c] = heap[c]]_vars

\* C7 witness: a rejected transition has left a session whose timestamps are
\* older than the clock, so a refresh would have been visible.
C7_Witness ==
  \E c \in DOMAIN heap :
    /\ lastOp.op = "transition" /\ lastOp.callSid = c /\ ~lastOp.ok
    /\ heap[c].state = "IDENTITY_CHECKED"
    /\ heap[c].lastSeenAt < now
    /\ Len(heap[c].auditLog) = 2

\* ======================================================================
\* Claims on process start
\* ======================================================================

\* C11: the bypass is refused in production: with IDP_ENABLED=false and
\* NODE_ENV=production the process never starts the janitor, never listens
\* and never runs a wrapped function; with IDP_ENABLED=false the store is
\* never initialized, read or written, and every invocation that starts
\* (which happens outside production only) goes straight to the wrapped
\* function.
C11_BypassRefusedInProduction ==
  /\ []((nodeEnv = "production" /\ ~idpEnabled) =>
          /\ boot \in {"starting", "exited"}
          /\ ~janitor
          /\ \A k \in Keys : fnCalls[k] = 0
          /\ \A c \in Callers : pc[c] = "idle")
  /\ [](~idpEnabled =>
          /\ ~storeInit
          /\ DOMAIN db = {}
          /\ \A c \in Callers : hit[c] = Null /\ pc[c] # "hit_check")
  /\ [][~idpEnabled =>
          \A c \in Callers :
            (Settled(c) /\ pc'[c] # pc[c]) =>
              /\ nodeEnv # "production"
              /\ boot = "listening"
              /\ pc'[c] = "in_fn"
              /\ fnCalls'[key'[c]] = fnCalls[key'[c]] + 1
              /\ db' = db]_vars

\* C11 witness: a production process configured with IDP_ENABLED=false has
\* run bootstrap and exited.
C11_Witness ==
  nodeEnv = "production" /\ ~idpEnabled /\ boot = "exited"

\* ======================================================================
\* Claims on the idempotency keys
\* ======================================================================

\* The names of the properties of an object whose value is not undefined.
DefinedKeys(o) == {o.fields[i].k : i \in {j \in 1..Len(o.fields) : o.fields[j].v.t # "undefined"}}

\* Two values say the same thing: objects with the same defined properties
\* (whatever their order) saying the same thing, arrays of one length saying
\* the same thing entry by entry, or the same number, string or null.
RECURSIVE SameMeaning(_, _)
SameMeaning(v, w) ==
  IF v.t # w.t THEN FALSE
  ELSE IF v.t = "object"
    THEN /\ DefinedKeys(v) = DefinedKeys(w)
         /\ \A k \in DefinedKeys(v) : SameMeaning(Get(v, k), Get(w, k))
  ELSE IF v.t = "array"
    THEN /\ Len(v.items) = Len(w.items)
         /\ \A i \in 1..Len(v.items) : SameMeaning(v.items[i], w.items[i])
  ELSE IF v.t = "number" THEN v.n = w.n
  ELSE IF v.t = "string" THEN v.s = w.s
  ELSE TRUE

\* C12: two requests get the same key exactly when their tenant, call
\* identifier and operation are equal and their inputs say the same thing
\* up to property order and undefined properties: insertion order and
\* undefined properties never change the key; a different defined value,
\* array order, operation or call identifier always does.
C12_SameKeyIffSameRequest ==
  ckResult # "pending" =>
    ((ckResult = "same") <=>
       /\ ckA.tenant = ckB.tenant
       /\ ckA.callSid = ckB.callSid
       /\ ckA.operation = ckB.operation
       /\ SameMeaning(ckA.inputs, ckB.inputs))

\* C12 witness: two requests whose inputs differ in the insertion order
\* of the properties of a nested object have been given the same key.
C12_Witness ==
  /\ ckResult = "same"
  /\ ckA.inputs = ObjV(<<Prop("a", ObjV(<<Prop("b", Num("2")), Prop("a", Num("1"))>>))>>)
  /\ ckB.inputs = ObjV(<<Prop("a", ObjV(<<Prop("a", Num("1")), Prop("b", Num("2"))>>))>>)

\* ======================================================================
\* Claims on the tool calls
\* ======================================================================

\* dispatchTool of dispatcher d has settled for the tool on a session it
\* found.
Answered(d, toolName) ==
  dpc[d] = "done" /\ dreq[d].toolName = toolName /\ dreq[d].found.present

\* dispatchTool resolved with ok:false and the code.
Failed(d, code) == dres[d].tag = "resolved" /\ ~dres[d].ok /\ dres[d].code = code

\* A payload value that is a string with something other than blanks.
NonBlank(v) == v \notin {Undefined, NotAString, ""}

\* C13: capture_identity with non-blank firstname and lastname on a session
\* at CALL_STARTED returns ok:true and leaves the session at
\* IDENTITY_CHECKED; capture_identity on a session in any other stage
\* returns ok:false with code illegal_state and leaves the stage and the
\* audit log as they were.
C13_CaptureIdentity ==
  \A d \in Dispatchers :
    Answered(d, "capture_identity") =>
      LET session == heap[dreq[d].callSid]
      IN /\ (/\ dreq[d].found.state = "CALL_STARTED"
             /\ NonBlank(dreq[d].payload.firstname)
             /\ NonBlank(dreq[d].payload.lastname))
              => /\ dres[d].tag = "resolved"
                 /\ dres[d].ok
                 /\ session.state = "IDENTITY_CHECKED"
         /\ dreq[d].found.state # "CALL_STARTED"
              => /\ Failed(d, "illegal_state")
                 /\ session.state = dreq[d].found.state
                 /\ session.auditLog = dreq[d].found.auditLog

\* The slot the payload of dispatcher d selects among the slots proposed to
\* the session, "" when it selects none.
SelectedSlot(d) ==
  LET selected == findSelectedSlot(dreq[d].payload,
                                   heap[dreq[d].callSid].scheduling.proposedSlots)
  IN IF selected.ok THEN selected.slot ELSE ""

\* C14: book_estimate invoked a second time for the same call and the same
\* slot (the first invocation has booked the slot and moved the session to
\* BOOKED) returns ok:true with the booking of the first invocation, and
\* the calendar holds exactly one booking, when no call to a collaborator
\* or to the store has failed.
C14_BookEstimateReplay ==
  \A d \in Dispatchers :
    (/\ Answered(d, "book_estimate")
     /\ faults = 0
     /\ dreq[d].found.state = "BOOKED"
     /\ SelectedSlot(d) = heap[dreq[d].callSid].booking.startISO)
      => /\ dres[d].tag = "resolved"
         /\ dres[d].ok
         /\ dres[d].data.booking = heap[dreq[d].callSid].booking
         /\ effects["calendar_book_event"] = 1

\* SMS consent is recorded as true for the contact (in the CRM, where
\* send_confirmation_sms reads it).
ConsentRecorded == crm.contact.consent = "true"

ConsentSucceeded(d) ==
  LET session == heap[dreq[d].callSid]
  IN session.contactConsent.set /\ session.contactConsent.consent

\* C16: once request_sms_consent with consent:true has succeeded on a BOOKED
\* session, an answered send_confirmation_sms has, when no collaborator and
\* no store call failed, succeeded with the session at CONFIRMED_SMS_SENT
\* after one SMS send and one update of the deal stage; and whatever failed
\* and however often the call was made again, never more than one SMS was
\* sent and never more than one stage update made.
C16_SmsSentOnce ==
  \A d \in Dispatchers :
    (/\ Answered(d, "send_confirmation_sms")
     /\ dreq[d].found.state \in {"BOOKED", "CONFIRMED_SMS_SENT"}
     /\ ConsentSucceeded(d))
      => /\ effects["twilio_send_sms"] <= 1
         /\ effects[LOCKED_SMS_SENT_STAGE_ID] <= 1
         /\ (faults = 0 /\ crm.deployment_status = "live")
              => /\ heap[dreq[d].callSid].state = "CONFIRMED_SMS_SENT"
                 /\ effects["twilio_send_sms"] = 1
                 /\ effects[LOCKED_SMS_SENT_STAGE_ID] = 1
                 /\ dreq[d].found.state = "BOOKED"
                      => dres[d].tag = "resolved" /\ dres[d].ok


\* C17: dispatchTool never throws or rejects: whatever the session, the tool
\* name and the payload, and whichever collaborator, store or alert call
\* failed, a dispatch that has settled has resolved to a result of the
\* uniform shape that names the tool.
C17_DispatchNeverRejects ==
  \A d \in Dispatchers :
    dpc[d] = "done"
      => /\ dres[d].tag = "resolved"
         /\ dres[d].tool = dreq[d].toolName
         /\ dres[d].ok => dres[d].state = heap[dreq[d].callSid].state
         /\ ~dres[d].ok => dres[d].code # ""


\* The codes of a failed validation, stage gate or precondition check.
ValidationCodes ==
  {"invalid_payload", "illegal_state", "missing_prerequisites", "missing_required_fields"}

\* C18: a dispatch whose result is invalid_payload, illegal_state,
\* missing_prerequisites or missing_required_fields has invoked no external
\* collaborator: no CRM, calendar, SMS or alert call was made on its behalf.
C18_ValidationReachesNoCollaborator ==
  \A d \in Dispatchers :
    (/\ dpc[d] = "done"
     /\ dres[d].tag = "resolved"
     /\ ~dres[d].ok
     /\ dres[d].code \in ValidationCodes)
      => dinv[d] = {}


\* The stage a tool moves the session to before its CRM write.
TargetStage(toolName) ==
  IF toolName = "capture_identity" THEN "IDENTITY_CHECKED"
  ELSE IF toolName = "confirm_address" THEN "ADDRESS_CONFIRMED"
  ELSE "PROBLEM_CAPTURED"

\* The codes of a CRM write that failed: upsertContact without a phone,
\* logEngagement without ids, the remote call, the idempotency store.
SideEffectCodes == {"missing_phone", "missing_hubspot_ids", "remote_error", "storage_error"}

\* The CRM write of the tool of d failed and dispatch answered ok:false.
SideEffectFailed(d) ==
  /\ dres[d].tag = "resolved"
  /\ ~dres[d].ok
  /\ dres[d].code \in SideEffectCodes

Retried(d) ==
  /\ dreq[d].found.present
  /\ lastFailed[d] # NoFailure
  /\ lastFailed[d] = [callSid |-> dreq[d].callSid, toolName |-> dreq[d].toolName,
                      payload |-> dreq[d].payload]

\* C20: after a dispatch failed on a side effect with the transition already
\* applied, the same tool call made again is not refused by the stage gate:
\* the retry from the stage the transition led to is never answered
\* illegal_state.
C20_RetryTolerated ==
  \A d \in Dispatchers :
    (dpc[d] = "done" /\ Retried(d)) => ~Failed(d, "illegal_state")


\* The session without its two timestamps (touchSession writes them).
Untimed(session) == [session EXCEPT !.lastSeenAt = 0, !.updatedAt = 0]

\* The refusal dispatchTool owes the request of d.
RefusalOf(d) ==
  IF ~dreq[d].found.present THEN "session_not_found"
  ELSE IF ~includes(ALLOWED_TOOLS, dreq[d].toolName) THEN "invalid_tool"
  ELSE IF dreq[d].toolName = "escalate_call" THEN "not_implemented"
  ELSE ""

C22_BookEstimateNeedsCrm ==
  \A d \in Dispatchers :
    LET session == heap[dreq[d].callSid]
    IN (/\ Answered(d, "book_estimate")
        /\ dreq[d].found.state = "SCHEDULING"
        /\ ~hasCrmSchedulingContext(session)
        /\ hubspotEnabled /\ crm.deployment_status = "live" /\ faults = 0)
         => /\ Failed(d, "missing_prerequisites")
            /\ effects["calendar_book_event"] = 0
            /\ session.state = "SCHEDULING"


\* The codes of a denial by the deployment gate.
DeploymentCodes == {"deployment_blocked", "deployment_test_only", "deployment_unknown"}

\* The code the gate owes a caller under a deployment status ("" when it
\* owes the call to the handler): live is open to everyone; not_deployed,
\* provisioning and awaiting_forwarding to allowlisted testers; suspended
\* and cancelled to nobody; nothing else is known.
GateVerdict(status, tester) ==
  IF status = "live" THEN ""
  ELSE IF status \in {"not_deployed", "provisioning", "awaiting_forwarding"}
    THEN IF tester THEN "" ELSE "deployment_test_only"
  ELSE IF status \in {"suspended", "cancelled"} THEN "deployment_blocked"
  ELSE "deployment_unknown"

\* C23: for a gated tool the gate lets the call through to the handler
\* exactly when the status is live, or test-only with the caller (the number
\* the call comes from) on the tester allowlist; otherwise dispatch answers
\* deployment_blocked, deployment_test_only or deployment_unknown as the
\* status requires and the session's stage and audit log are unchanged.
C23_DeploymentGate ==
  \A d \in Dispatchers :
    (Answered(d, dreq[d].toolName) /\ includes(GATED_TOOLS, dreq[d].toolName)
       /\ hubspotEnabled /\ heap[dreq[d].callSid].hubspot.crmReady
       /\ dres[d].tag = "resolved" /\ dres[d].code # "hubspot_api_error")
      => LET session == heap[dreq[d].callSid]
             verdict == GateVerdict(toLowerCaseTrimmed(crm.deployment_status),
                                    isTesterCaller(session.callerPhone))
         IN IF verdict = ""
              THEN dres[d].ok \/ dres[d].code \notin DeploymentCodes
              ELSE /\ Failed(d, verdict)
                   /\ session.state = dreq[d].found.state
                   /\ session.auditLog = dreq[d].found.auditLog

\* ------------------------------------------- the relay of one stream
\* wsServer.on('connection'): the closure of one Twilio stream and of the
\* OpenAI Realtime socket opened for it. Every handler below is synchronous,
\* so each one is one step.

\* Caller media frames and OpenAI audio deltas one stream carries.
MaxFrames == 2
MaxDeltas == 2

\* readyState of a ws socket
CONNECTING == "CONNECTING"
OPEN == "OPEN"
CLOSING == "CLOSING"
CLOSED == "CLOSED"

UnknownCall == "unknown-call"

\* msg.error?.code of an OpenAI `error` message
OpenAiErrorCodes == {"response_cancel_not_active", "invalid_request_error", Undefined}

\* The handler that ran last, the code of the error message it was given and
\* whether it called alertCritical.
Event(name, code, alerted) == [name |-> name, code |-> code, alerted |-> alerted]

\* The closure as the connection handler leaves it: the Twilio socket is
\* open, initializeOpenAi() has created the OpenAI socket. toOpenAi and
\* toTwilio are the messages handed to an open socket, in order; frames and
\* deltas count the media messages received from either peer, and
\* endSessionCalls the runs of finalizeCall that got past its first return.
NewRelay ==
  [twilio |-> OPEN, openAi |-> CONNECTING, callSid |-> UnknownCall,
   openAiReady |-> FALSE, agentSpeaking |-> FALSE, twilioStreamStarted |-> FALSE,
   sessionUpdateSent |-> FALSE, initialResponseCreateSent |-> FALSE,
   toOpenAi |-> << >>, toTwilio |-> << >>, frames |-> 0, deltas |-> 0,
   endSessionCalls |-> 0, event |-> Event("connection", Undefined, FALSE)]

\* socket.send(message): ws hands the message to an open socket and drops it,
\* without throwing, on one that is closing or closed.
send(readyState, sent, message) ==
  IF readyState = OPEN THEN Append(sent, message) ELSE sent

\* socket.close() behind `if (socket.readyState === WebSocket.OPEN)`
closeIfOpen(readyState) == IF readyState = OPEN THEN CLOSING ELSE readyState

\* setAgentSpeaking(nextState, reason)
setAgentSpeaking(r, nextState) ==
  IF r.agentSpeaking = nextState THEN r ELSE [r EXCEPT !.agentSpeaking = nextState]

\* The barge-in block of the media handler with the flag left set
bargeInKeepsSpeaking(r) ==
  IF r.agentSpeaking
    THEN [r EXCEPT !.toOpenAi = send(r.openAi, @, "response.cancel"),
                   !.toTwilio = send(r.twilio, @, "clear")]
    ELSE r

\* The barge-in block of the media handler: `if (agentSpeaking)` sends
\* response.cancel to OpenAI and clear to Twilio and resets the flag.
bargeIn(r) ==
  IF r.agentSpeaking
    THEN setAgentSpeaking([r EXCEPT !.toOpenAi = send(r.openAi, @, "response.cancel"),
                                    !.toTwilio = send(r.twilio, @, "clear")], FALSE)
    ELSE r

\* closeBoth(reason)
closeBoth(r) ==
  [r EXCEPT !.twilio = closeIfOpen(r.twilio), !.openAi = closeIfOpen(r.openAi)]

\* maybeSendInitialResponseCreate() without its wait for the stream start
maybeSendInitialResponseCreateEarly(r) ==
  IF r.initialResponseCreateSent \/ ~r.sessionUpdateSent \/ r.openAi # OPEN
    THEN r
    ELSE [r EXCEPT !.toOpenAi = Append(@, "response.create"),
                   !.initialResponseCreateSent = TRUE]

\* maybeSendInitialResponseCreate()
maybeSendInitialResponseCreate(r) ==
  IF r.initialResponseCreateSent \/ ~r.twilioStreamStarted \/ ~r.sessionUpdateSent
    THEN r
    ELSE IF r.openAi # OPEN
      THEN r
      ELSE [r EXCEPT !.toOpenAi = Append(@, "response.create"),
                     !.initialResponseCreateSent = TRUE]

\* finalizeCall(reason) without the test of the callFinalized flag
RelayFinalizeCallUnguarded(r, reason) ==
  IF r.callSid = UnknownCall
    THEN /\ relay' = r
         /\ UNCHANGED <<heap, sessions, callFinalized, lastOp>>
    ELSE /\ IF r.callSid \in sessions /\ heap[r.callSid].state # "CALL_ENDED"
              THEN LET t == transition(heap[r.callSid], "CALL_ENDED", reason, now)
                   IN /\ heap' = [heap EXCEPT ![r.callSid] = t.session]
                      /\ lastOp' = Op("transition", r.callSid, heap[r.callSid].state,
                                      "CALL_ENDED", t.ok)
              ELSE /\ heap' = heap
                   /\ lastOp' = Op("endSession", r.callSid, heap[r.callSid].state,
                                   heap[r.callSid].state, TRUE)
         /\ sessions' = sessions \ {r.callSid}
         /\ callFinalized' = [callFinalized EXCEPT ![r.callSid] = TRUE]
         /\ relay' = [r EXCEPT !.endSessionCalls = Min(@ + 1, MaxFnCalls)]

\* The closure's finalizeCall(reason), run inside a handler that leaves the
\* closure as r: nothing when the call is finalized or has no callSid yet;
\* otherwise the transition to CALL_ENDED of a stored session that has not
\* ended, endSession, and the flag. The flag of the closure is callFinalized
\* of its call.
RelayFinalizeCall(r, reason) ==
  IF r.callSid = UnknownCall \/ callFinalized[r.callSid]
    THEN /\ relay' = r
         /\ UNCHANGED <<heap, sessions, callFinalized, lastOp>>
    ELSE /\ IF r.callSid \in sessions /\ heap[r.callSid].state # "CALL_ENDED"
              THEN LET t == transition(heap[r.callSid], "CALL_ENDED", reason, now)
                   IN /\ heap' = [heap EXCEPT ![r.callSid] = t.session]
                      /\ lastOp' = Op("transition", r.callSid, heap[r.callSid].state,
                                      "CALL_ENDED", t.ok)
              ELSE /\ heap' = heap
                   /\ lastOp' = Op("endSession", r.callSid, heap[r.callSid].state,
                                   heap[r.callSid].state, TRUE)
         /\ sessions' = sessions \ {r.callSid}
         /\ callFinalized' = [callFinalized EXCEPT ![r.callSid] = TRUE]
         /\ relay' = [r EXCEPT !.endSessionCalls = Min(@ + 1, MaxFnCalls)]

\* A handler of the OpenAI socket or a Twilio message that is not `start`
\* and does not finalize: the session store is touched by Twilio messages
\* only, and only while it holds the call.
RelayTouch(touched) ==
  IF touched /\ relay.callSid \in sessions
    THEN /\ heap' = [heap EXCEPT ![relay.callSid] = touchSession(@, now)]
         /\ lastOp' = Op("touch", relay.callSid, heap[relay.callSid].state,
                         heap[relay.callSid].state, TRUE)
    ELSE UNCHANGED <<heap, lastOp>>

RelayRest == UNCHANGED <<bootVars, ckVars, dispVars, now, idpVars, ctVars>>

\* openAiSocket.on('open')
OpenAiOpen ==
  /\ relay.openAi = CONNECTING
  /\ LET opened == [relay EXCEPT !.openAi = OPEN, !.openAiReady = TRUE]
         updated == [opened EXCEPT !.toOpenAi = send(opened.openAi, @, "session.update"),
                                   !.sessionUpdateSent = TRUE]
     IN relay' = [maybeSendInitialResponseCreate(updated) EXCEPT
                    !.event = Event("openai.open", Undefined, FALSE)]
  /\ UNCHANGED <<heap, sessions, callFinalized, lastOp>>
  /\ RelayRest

\* openAiSocket.on('message') with response.done or response.completed
OpenAiResponseDone ==
  /\ relay.openAi \in {OPEN, CLOSING}
  /\ relay' = [setAgentSpeaking(relay, FALSE) EXCEPT
                 !.event = Event("openai.response.done", Undefined, FALSE)]
  /\ UNCHANGED <<heap, sessions, callFinalized, lastOp>>
  /\ RelayRest

\* openAiSocket.on('message') with response.audio.delta carrying a delta
OpenAiAudioDelta ==
  /\ relay.openAi \in {OPEN, CLOSING}
  /\ relay.deltas < MaxDeltas
  /\ LET counted == [relay EXCEPT !.deltas = @ + 1,
                                  !.event = Event("openai.audio.delta", Undefined, FALSE)]
     IN relay' = IF relay.twilio = OPEN
                   THEN [setAgentSpeaking(counted, TRUE) EXCEPT
                           !.toTwilio = send(relay.twilio, @, "media")]
                   ELSE counted
  /\ UNCHANGED <<heap, sessions, callFinalized, lastOp>>
  /\ RelayRest

\* An `error` message handler that treats every code but
\* response_cancel_not_active as fatal and closes the pair
OpenAiErrorMessageClosing(code) ==
  /\ relay.openAi \in {OPEN, CLOSING}
  /\ LET logged == [relay EXCEPT !.event = Event("openai.error.message", code,
                                                code # "response_cancel_not_active")]
     IN relay' = IF code = "response_cancel_not_active" THEN logged ELSE closeBoth(logged)
  /\ UNCHANGED <<heap, sessions, callFinalized, lastOp>>
  /\ RelayRest

\* openAiSocket.on('message') with type `error`: the code
\* response_cancel_not_active is logged; any other is logged and alerted.
OpenAiErrorMessage(code) ==
  /\ relay.openAi \in {OPEN, CLOSING}
  /\ relay' = [relay EXCEPT !.event = Event("openai.error.message", code,
                                            code # "response_cancel_not_active")]
  /\ UNCHANGED <<heap, sessions, callFinalized, lastOp>>
  /\ RelayRest

\* openAiSocket.on('close'): the peer closed the socket, or a close the relay
\* or a socket error began has completed.
OpenAiClose ==
  /\ relay.openAi \in {OPEN, CLOSING}
  /\ relay' = [relay EXCEPT !.openAi = CLOSED, !.openAiReady = FALSE,
                            !.twilio = closeIfOpen(@),
                            !.event = Event("openai.close", Undefined, TRUE)]
  /\ UNCHANGED <<heap, sessions, callFinalized, lastOp>>
  /\ RelayRest

\* openAiSocket.on('error'): the handshake failed or the stream broke; ws has
\* put the socket into CLOSING when it emits the event, and `close` follows.
OpenAiError ==
  /\ relay.openAi \in {CONNECTING, OPEN}
  /\ relay' = [closeBoth([relay EXCEPT !.openAi = CLOSING]) EXCEPT
                 !.event = Event("openai.error", Undefined, TRUE)]
  /\ UNCHANGED <<heap, sessions, callFinalized, lastOp>>
  /\ RelayRest

\* twilioSocket.on('message') with event `start`: Twilio sends it once, with
\* the callSid, before any media.
TwilioStartMessage(callSid) ==
  /\ relay.twilio \in {OPEN, CLOSING}
  /\ ~relay.twilioStreamStarted
  /\ callSid \notin DOMAIN heap
  /\ LET t == transition(createSession(callSid, now), "CALL_STARTED",
                         "twilio_stream_start", now)
         started == [relay EXCEPT !.callSid = callSid, !.twilioStreamStarted = TRUE,
                                  !.event = Event("twilio.start", Undefined, FALSE)]
     IN /\ heap' = [c \in DOMAIN heap \cup {callSid} |->
                      IF c = callSid THEN t.session ELSE heap[c]]
        /\ lastOp' = Op("transition", callSid, NullState, "CALL_STARTED", t.ok)
        /\ relay' = IF started.openAiReady /\ started.sessionUpdateSent
                       /\ ~started.initialResponseCreateSent /\ started.openAi = OPEN
                      THEN [started EXCEPT !.toOpenAi = Append(@, "response.create"),
                                           !.initialResponseCreateSent = TRUE]
                      ELSE started
  /\ sessions' = sessions \cup {callSid}
  /\ UNCHANGED callFinalized
  /\ RelayRest

\* twilioSocket.on('message') with event `media`
TwilioMedia ==
  /\ relay.twilio \in {OPEN, CLOSING}
  /\ relay.twilioStreamStarted
  /\ relay.frames < MaxFrames
  /\ LET received == [relay EXCEPT !.frames = @ + 1,
                                   !.event = Event("twilio.media", Undefined, FALSE)]
         interrupted == bargeIn(received)
     IN relay' = IF ~received.openAiReady \/ received.openAi # OPEN
                   THEN received
                   ELSE [interrupted EXCEPT
                           !.toOpenAi = send(interrupted.openAi, @,
                                             "input_audio_buffer.append")]
  /\ RelayTouch(TRUE)
  /\ UNCHANGED <<sessions, callFinalized>>
  /\ RelayRest

\* twilioSocket.on('message') with event `stop`
TwilioStop ==
  /\ relay.twilio \in {OPEN, CLOSING}
  /\ relay.twilioStreamStarted
  /\ RelayFinalizeCall([closeBoth(relay) EXCEPT
                          !.event = Event("twilio.stop", Undefined, FALSE)],
                       "twilio_stop")
  /\ RelayRest

\* twilioSocket.on('close'): the caller's side closed the socket, or a close
\* the relay or a socket error began has completed.
TwilioClose ==
  /\ relay.twilio \in {OPEN, CLOSING}
  /\ RelayFinalizeCall([relay EXCEPT !.twilio = CLOSED,
                                     !.openAi = closeIfOpen(@),
                                     !.event = Event("twilio.close", Undefined, TRUE)],
                       "twilio_close")
  /\ RelayRest

\* twilioSocket.on('error'): ws has put the socket into CLOSING when it emits
\* the event, and `close` follows.
TwilioError ==
  /\ relay.twilio = OPEN
  /\ relay' = [closeBoth([relay EXCEPT !.twilio = CLOSING]) EXCEPT
                 !.event = Event("twilio.error", Undefined, TRUE)]
  /\ UNCHANGED <<heap, sessions, callFinalized, lastOp>>
  /\ RelayRest

\* ---- one stream from its connection to the end of both sockets
InitRelay ==
  /\ InitIdempotency
  /\ idpEnabled
  /\ InitSessions
  /\ IdleMatrix
  /\ Booted
  /\ IdleCanonical
  /\ hubspotEnabled \in BOOLEAN
  /\ crm = << >>
  /\ dpc = << >>
  /\ dreq = << >>
  /\ dloc = << >>
  /\ dres = << >>
  /\ dinv = << >>
  /\ effects = << >>
  /\ faults = 0
  /\ lastFailed = << >>
  /\ relay = NewRelay
  /\ now = 0

NextRelay ==
  \/ OpenAiOpen
  \/ OpenAiResponseDone
  \/ OpenAiAudioDelta
  \/ \E code \in OpenAiErrorCodes : OpenAiErrorMessage(code)
  \/ OpenAiClose
  \/ OpenAiError
  \/ \E c \in CallSids : TwilioStartMessage(c)
  \/ \E c \in CallSids, ready \in BOOLEAN : HubspotIntakeSettled(c, ready)
  \/ TwilioMedia
  \/ TwilioStop
  \/ TwilioClose
  \/ TwilioError

SpecRelay == InitRelay /\ [][NextRelay]_vars

\* ws completes a close it has begun (the closing handshake or its timeout),
\* and a connection attempt ends in `open` or in `error`; what the peers do
\* on their own is not forced.
SpecRelayLive ==
  /\ SpecRelay
  /\ WF_vars(relay.twilio = CLOSING /\ TwilioClose)
  /\ WF_vars(relay.openAi = CLOSING /\ OpenAiClose)
  /\ WF_vars(OpenAiOpen \/ (relay.openAi = CONNECTING /\ OpenAiError))


\* The places of a message in what a socket was sent.
Sent(sent, message) == {i \in DOMAIN sent : sent[i] = message}

\* C24: the initial response.create goes to the OpenAI socket at most once per
\* stream, only once the stream start has been observed and after the
\* session.update; and it has gone out as soon as both have happened while
\* the OpenAI socket is open.
C24_InitialResponseOnce ==
  LET created == Sent(relay.toOpenAi, "response.create")
  IN /\ Cardinality(created) <= 1
     /\ relay.initialResponseCreateSent <=> created # {}
     /\ \A i \in created :
          /\ relay.twilioStreamStarted
          /\ relay.sessionUpdateSent
          /\ \E j \in 1..(i - 1) : relay.toOpenAi[j] = "session.update"
     /\ (relay.twilioStreamStarted /\ relay.sessionUpdateSent /\ relay.openAi = OPEN)
          => created # {}

\* The start message arrived after the session.update and sent the
\* response.create.
C24_Witness ==
  /\ relay.event.name = "twilio.start"
  /\ relay.toOpenAi = <<"session.update", "response.create">>

\* The socket opened after the start message and its handler sent both.
C24_WitnessOpenLast ==
  /\ relay.event.name = "openai.open"
  /\ relay.twilioStreamStarted
  /\ relay.toOpenAi = <<"session.update", "response.create">>

\* C25: response.cancel and clear are sent only by the handler of a caller
\* media frame that finds agentSpeaking set, both or neither, and that
\* handler resets agentSpeaking; a frame that finds it unset sends neither;
\* so every clear sent to Twilio directly follows an AI audio frame, and
\* there are as many cancels as clears.
C25_BargeInOnce ==
  /\ [](/\ Cardinality(Sent(relay.toOpenAi, "response.cancel"))
             = Cardinality(Sent(relay.toTwilio, "clear"))
        /\ \A i \in Sent(relay.toTwilio, "clear") :
             i > 1 /\ relay.toTwilio[i - 1] = "media")
  /\ [][LET cancels == Cardinality(Sent(relay'.toOpenAi, "response.cancel"))
                         - Cardinality(Sent(relay.toOpenAi, "response.cancel"))
            clears == Cardinality(Sent(relay'.toTwilio, "clear"))
                        - Cardinality(Sent(relay.toTwilio, "clear"))
        IN /\ cancels = clears
           /\ cancels \in {0, 1}
           /\ cancels = 1 => /\ relay'.frames = relay.frames + 1
                             /\ relay.agentSpeaking
                             /\ ~relay'.agentSpeaking
           /\ (relay'.frames = relay.frames + 1 /\ ~relay.agentSpeaking)
                => cancels = 0]_vars

\* The caller spoke over the agent: the frame's handler sent the pair, and
\* the next frame found agentSpeaking unset.
C25_Witness ==
  /\ relay.event.name = "twilio.media"
  /\ relay.frames = 2
  /\ ~relay.agentSpeaking
  /\ relay.toTwilio = <<"media", "clear">>
  /\ Cardinality(Sent(relay.toOpenAi, "response.cancel")) = 1
  /\ Cardinality(Sent(relay.toOpenAi, "input_audio_buffer.append")) = 2

\* C26: every caller media frame received is forwarded: there are as many
\* input_audio_buffer.append messages to OpenAI as frames received, and a
\* response.cancel a frame triggers is directly followed by that frame's
\* append.
C26_EveryFrameForwarded ==
  /\ Cardinality(Sent(relay.toOpenAi, "input_audio_buffer.append")) = relay.frames
  /\ \A i \in Sent(relay.toOpenAi, "response.cancel") :
       /\ i < Len(relay.toOpenAi)
       /\ relay.toOpenAi[i + 1] = "input_audio_buffer.append"

\* What the media handler does guarantee: a frame that finds the OpenAI
\* socket open is forwarded once, after the cancel it triggers, and a frame
\* that finds it connecting, closing or closed is dropped.
C26_ForwardedWhileOpen ==
  [][relay'.frames = relay.frames + 1 =>
       LET forwarded == Cardinality(Sent(relay'.toOpenAi, "input_audio_buffer.append"))
                          - Cardinality(Sent(relay.toOpenAi, "input_audio_buffer.append"))
       IN /\ forwarded = IF relay.openAi = OPEN THEN 1 ELSE 0
          /\ forwarded = 1 => relay'.toOpenAi[Len(relay'.toOpenAi)]
                                = "input_audio_buffer.append"]_vars

\* C27: once either socket has begun to close, has errored or is closed, the
\* relay gets to the state where both sockets are closed and the call's
\* session is finalized and out of the store.
C27_TeardownCompletes ==
  (relay.twilio \in {CLOSING, CLOSED} \/ relay.openAi \in {CLOSING, CLOSED})
    ~> (/\ relay.twilio = CLOSED
        /\ relay.openAi = CLOSED
        /\ relay.callSid \notin sessions)

\* The half of the teardown that does complete: the Twilio socket closes
\* and the session is finalized whenever either socket began to close.
C27_TwilioSideCompletes ==
  (relay.twilio \in {CLOSING, CLOSED} \/ relay.openAi \in {CLOSING, CLOSED})
    ~> (relay.twilio = CLOSED /\ relay.callSid \notin sessions)

\* The partial teardown no handler leaves: the caller is gone, the session is
\* finalized, and the OpenAI socket, which was connecting when the relay
\* closed the pair, has opened.
C27_HalfOpen ==
  /\ relay.twilio = CLOSED
  /\ relay.openAi = OPEN
  /\ relay.callSid # UnknownCall
  /\ callFinalized[relay.callSid]

\* The audit entries of a session that record a transition to CALL_ENDED.
Endings(session) ==
  {i \in DOMAIN session.auditLog : session.auditLog[i].nextState = "CALL_ENDED"}

\* C28: the relay finalizes a call at most once: finalizeCall gets past its
\* first return at most once per stream, a session has at most one
\* transition to CALL_ENDED, a finalized call is out of the store, and once
\* the call is finalized no stop, close or error event changes the session,
\* the store or the flag again.
C28_FinalizedOnce ==
  /\ [](/\ relay.endSessionCalls <= 1
        /\ \A c \in CallSids :
             /\ callFinalized[c] <=> (relay.callSid = c /\ relay.endSessionCalls = 1)
             /\ callFinalized[c] => c \notin sessions
             /\ c \in DOMAIN heap => Cardinality(Endings(heap[c])) <= 1)
  /\ [][\A c \in CallSids :
          callFinalized[c] => UNCHANGED <<heap, sessions, callFinalized>>]_vars

\* The stop message finalized the call and the close event of the Twilio
\* socket came after it.
C28_Witness ==
  /\ relay.event.name = "twilio.close"
  /\ relay.endSessionCalls = 1
  /\ \E c \in CallSids :
       /\ callFinalized[c]
       /\ c \notin sessions
       /\ heap[c].state = "CALL_ENDED"
       /\ heap[c].auditLog[Len(heap[c].auditLog)].reason = "twilio_stop"

\* C29: the handler of an OpenAI `error` message changes nothing but the
\* record of the event: both sockets keep their readyState, the session, the
\* store and the finalized flag stay as they are; it raises an alert for
\* every code except response_cancel_not_active, for which it raises none.
C29_ErrorMessageKeepsOpen ==
  [][(relay' # relay /\ relay'.event.name = "openai.error.message") =>
       /\ relay' = [relay EXCEPT !.event = relay'.event]
       /\ relay'.twilio = relay.twilio
       /\ relay'.openAi = relay.openAi
       /\ UNCHANGED <<heap, sessions, callFinalized>>
       /\ relay'.event.alerted <=> relay'.event.code # "response_cancel_not_active"]_vars

\* An error message with another code arrived in mid-call: it was alerted,
\* and both sockets are open and the session is in the store.
C29_Witness ==
  /\ relay.event = Event("openai.error.message", "invalid_request_error", TRUE)
  /\ relay.twilio = OPEN
  /\ relay.openAi = OPEN
  /\ relay.callSid \in sessions
  /\ ~callFinalized[relay.callSid]

\* The cancel race: the code response_cancel_not_active after a barge-in,
\* logged without an alert.
C29_WitnessCancelRace ==
  /\ relay.event = Event("openai.error.message", "response_cancel_not_active", FALSE)
  /\ Sent(relay.toOpenAi, "response.cancel") # {}
  /\ relay.twilio = OPEN
  /\ relay.openAi = OPEN

\* The stages assertAllowedState of handleFinalizeAndLog admits.
FinalizableStages ==
  {"PROBLEM_CAPTURED", "SCHEDULING", "BOOKED", "CONFIRMED_SMS_SENT", "ESCALATED"}

\* C30: the step in which dispatchTool resolves finalize_and_log with ok:true
\* started from a session found at one of the five stages, leaves it at
\* CALL_ENDED with exactly two more audit entries, to LOGGED_TO_HUBSPOT and
\* then to CALL_ENDED, and takes it out of the store; a call that has been
\* in the store and is out of it stays out, and a dispatch that finds no
\* session answers session_not_found.
C30_FinalizeEndsSession ==
  /\ [](\A d \in Dispatchers :
          (dpc[d] = "done" /\ ~dreq[d].found.present) => Failed(d, "session_not_found"))
  /\ [][/\ \A c \in DOMAIN heap : c \notin sessions => c \notin sessions'
        /\ \A d \in Dispatchers :
             (/\ dpc[d] # "done"
              /\ dpc'[d] = "done"
              /\ dreq'[d].toolName = "finalize_and_log"
              /\ dres'[d].tag = "resolved"
              /\ dres'[d].ok)
               => LET c == dreq'[d].callSid
                      found == dreq'[d].found
                      log == heap'[c].auditLog
                      n == Len(found.auditLog)
                  IN /\ found.present
                     /\ found.state \in FinalizableStages
                     /\ heap'[c].state = "CALL_ENDED"
                     /\ Len(log) = n + 2
                     /\ SubSeq(log, 1, n) = found.auditLog
                     /\ log[n + 1].previousState = found.state
                     /\ log[n + 1].nextState = "LOGGED_TO_HUBSPOT"
                     /\ log[n + 2].previousState = "LOGGED_TO_HUBSPOT"
                     /\ log[n + 2].nextState = "CALL_ENDED"
                     /\ c \notin sessions']_vars

\* finalize_and_log has ended the call, and a later dispatch for it was
\* answered session_not_found.
C30_Witness ==
  \E d \in Dispatchers :
    LET c == dreq[d].callSid
    IN /\ dpc[d] = "done"
       /\ Failed(d, "session_not_found")
       /\ c \in DOMAIN heap
       /\ c \notin sessions
       /\ heap[c].state = "CALL_ENDED"
       /\ heap[c].auditLog[Len(heap[c].auditLog)].reason = "tool:finalize_and_log"

\* finalize_and_log has just succeeded on a session found at the stage.
C30_SucceededFrom(stage) ==
  \E d \in Dispatchers :
    /\ dpc[d] = "done"
    /\ dreq[d].toolName = "finalize_and_log"
    /\ dres[d].tag = "resolved"
    /\ dres[d].ok
    /\ dreq[d].found.state = stage

\* ------------------------------------------------- the session janitor
\* SESSION_TTL_MINUTES as the README sets it for the TTL test; the clock of
\* the janitor specification ticks in minutes, the janitor's interval.
SESSION_TTL_MINUTES == 1

\* The calls alive at the same time while the janitor is watched.
JanitorCallSids == {"CA1", "CA2"}

\* The stages the tools move a watched session to.
JanitorStages == {"IDENTITY_CHECKED", "CALL_ENDED"}

\* A janitor that measures the age of a session instead of its idle time
expiredByAge(session, nowMinutes, ttlMinutes) == nowMinutes - session.createdAt > ttlMinutes

\* nowMs - lastSeenMs > ttlMs, in minutes
expired(session, nowMinutes, ttlMinutes) == nowMinutes - session.lastSeenAt > ttlMinutes

\* sessionStore.cleanupExpiredSessions(): one pass of the janitor over the
\* Map. lastSeenAt is always written by nowIso(), so Date.parse never
\* yields NaN.
cleanupExpiredSessions ==
  /\ janitor
  /\ sessions' = {c \in sessions : ~expired(heap[c], now, SESSION_TTL_MINUTES)}
  /\ lastOp' = Op("cleanupExpiredSessions", "none", NullState, NullState, TRUE)
  /\ UNCHANGED <<bootVars, ckVars, dispVars, heap, callFinalized, now, idpVars, ctVars, relay>>

\* A minute passes.
Elapse ==
  /\ now < MaxIdle
  /\ now' = now + 1
  /\ UNCHANGED <<bootVars, ckVars, dispVars, idpVars, smVars, ctVars, relay>>

\* ---- two calls under the janitor: streams start, the sessions are touched
\* and moved, minutes pass, and the janitor makes its passes
InitJanitor == InitStateMachine

NextJanitor ==
  \/ \E c \in JanitorCallSids : TwilioStart(c)
  \/ \E c \in JanitorCallSids, n \in JanitorStages : ToolTransition(c, n)
  \/ \E c \in JanitorCallSids : TouchSession(c)
  \/ cleanupExpiredSessions
  \/ Elapse

SpecJanitor == InitJanitor /\ [][NextJanitor]_vars

\* C31: a pass of the janitor removes from the store exactly the sessions
\* whose lastSeenAt lies more than the TTL back and changes no session; a
\* touch and a successful transition set lastSeenAt to the clock, so a
\* session seen within the TTL stays in the store.
C31_JanitorEvictsIdle ==
  [][/\ (lastOp'.op = "cleanupExpiredSessions" /\ now' = now) =>
          /\ heap' = heap
          /\ \A c \in sessions :
               c \in sessions' <=> now - heap[c].lastSeenAt <= SESSION_TTL_MINUTES
          /\ sessions' \subseteq sessions
     /\ \A c \in sessions \cap sessions' :
          (lastOp'.callSid = c /\ lastOp'.ok /\ lastOp' # lastOp)
            => heap'[c].lastSeenAt = now
     /\ \A c \in sessions \ sessions' :
          now - heap[c].lastSeenAt > SESSION_TTL_MINUTES]_vars

\* The janitor has passed over two stored sessions: the one idle for longer
\* than the TTL is gone, the one seen within the TTL is kept.
C31_Witness ==
  /\ lastOp.op = "cleanupExpiredSessions"
  /\ DOMAIN heap = JanitorCallSids
  /\ "CA1" \notin sessions
  /\ "CA2" \in sessions
  /\ now - heap["CA1"].lastSeenAt > SESSION_TTL_MINUTES
  /\ now - heap["CA2"].lastSeenAt <= SESSION_TTL_MINUTES
  /\ heap["CA2"].createdAt < heap["CA2"].lastSeenAt

\* ---- a tool call under the janitor: the stream starts, the CRM intake
\* settles, capture_identity is dispatched and awaits the CRM while minutes
\* pass and the janitor makes its passes
NextEviction ==
  \/ \E c \in CallSids : TwilioStart(c)
  \/ \E c \in CallSids, ready \in BOOLEAN : HubspotIntakeSettled(c, ready)
  \/ \E d \in Dispatchers, c \in CallSids :
       \E payload \in Payloads("capture_identity") :
         DispatchBegin(d, c, "capture_identity", payload)
  \/ \E d \in Dispatchers : CaptureIdentityUpserted(d)
  \/ \E d \in Dispatchers : DispatchCatchAlerted(d)
  \/ \E d \in Dispatchers : ToolRouteRespond(d)
  \/ cleanupExpiredSessions
  \/ Elapse

SpecEviction == InitDispatchSpec /\ [][NextEviction]_vars

\* dispatchTool of dispatcher d has been called and has not returned.
InFlight(d) == dpc[d] \notin {"idle", "done"}

\* C32: a pass of the janitor removes no session for which a dispatch has
\* started and not returned.
C32_NoEvictionInFlight ==
  [][\A d \in Dispatchers :
       (InFlight(d) /\ lastOp'.op = "cleanupExpiredSessions"
          /\ dreq[d].callSid \in sessions)
         => dreq[d].callSid \in sessions']_vars

\* What holds instead: the janitor looks at lastSeenAt alone, so a dispatch
\* is safe from it for the TTL after dispatchTool touched the session.
C32_SafeWithinTtl ==
  [][\A d \in Dispatchers :
       (InFlight(d) /\ lastOp'.op = "cleanupExpiredSessions"
          /\ dreq[d].callSid \in sessions
          /\ now - heap[dreq[d].callSid].lastSeenAt <= SESSION_TTL_MINUTES)
         => dreq[d].callSid \in sessions']_vars

\* The dispatch outlived the eviction: it answers ok:true for a session the
\* store no longer holds.
C32_AnsweredAfterEviction ==
  \E d \in Dispatchers :
    /\ dpc[d] = "done"
    /\ dreq[d].found.present
    /\ dres[d].tag = "resolved"
    /\ dres[d].ok
    /\ dreq[d].callSid \notin sessions

\* The field of a payload of the tool that its validation rejects first, ""
\* when the payload is valid; for the three tools the deployment gate does
\* not stand before.
OffendingField(toolName, payload) ==
  IF toolName = "capture_identity"
    THEN IF ~validateString(payload, "firstname", FALSE) THEN "firstname"
         ELSE IF ~validateString(payload, "lastname", FALSE) THEN "lastname"
         ELSE IF ~validateString(payload, "phone", TRUE) THEN "phone"
         ELSE ""
  ELSE IF toolName = "confirm_address"
    THEN IF ~validateString(payload, "service_street_1", FALSE) THEN "service_street_1"
         ELSE IF ~validateString(payload, "service_city", FALSE) THEN "service_city"
         ELSE IF ~validateString(payload, "service_state", FALSE) THEN "service_state"
         ELSE IF ~validateString(payload, "service_postal_code", FALSE)
           THEN "service_postal_code"
         ELSE ""
  ELSE IF toolName = "capture_problem"
    THEN IF ~validateString(payload, "problem_summary", FALSE) THEN "problem_summary"
         ELSE ""
  ELSE ""

\* The stage assertAllowedState of the tool's handler admits.
AllowedStage(toolName) ==
  IF toolName = "capture_identity" THEN "CALL_STARTED"
  ELSE IF toolName = "confirm_address" THEN "IDENTITY_CHECKED"
  ELSE "ADDRESS_CONFIRMED"

UngatedValidated == {"capture_identity", "confirm_address", "capture_problem"}

\* C33: a dispatch with an invalid payload that dispatchTool resolves is
\* answered invalid_payload naming the offending field, whatever the stage
\* the session was found at.
C33_ValidationBeforeStage ==
  \A d \in Dispatchers, t \in UngatedValidated :
    (/\ Answered(d, t)
     /\ dres[d].tag = "resolved"
     /\ OffendingField(t, dreq[d].payload) # "")
      => /\ Failed(d, "invalid_payload")
         /\ dres[d].details = {OffendingField(t, dreq[d].payload)}

\* The order of the code: the stage is tested first, so invalid_payload is
\* the answer at the tool's own stage and illegal_state at every other.
C33_StageBeforeValidation ==
  \A d \in Dispatchers, t \in UngatedValidated :
    (/\ Answered(d, t)
     /\ dres[d].tag = "resolved"
     /\ OffendingField(t, dreq[d].payload) # "")
      => IF dreq[d].found.state = AllowedStage(t)
           THEN /\ Failed(d, "invalid_payload")
                /\ dres[d].details = {OffendingField(t, dreq[d].payload)}
           ELSE Failed(d, "illegal_state")

\* C34: no calendar booking, SMS send or deal-stage write of a tool is
\* carried out while the session is still at the stage the tool was invoked
\* from.
C34_TransitionBeforeEffects ==
  [][\A op \in Counted :
       effects'[op] > effects[op] =>
         \A d \in Dispatchers :
           InFlight(d) => heap[dreq[d].callSid].state # dreq[d].found.state]_vars

\* The order of the code for the two tools that book and send: the calendar
\* event and the deal stage of book_estimate and the SMS of
\* send_confirmation_sms are carried out at the stage the tool found, and
\* only the deal stage of send_confirmation_sms after the transition.
C34_EffectsBeforeTransition ==
  [][\A op \in Counted :
       effects'[op] > effects[op] =>
         \A d \in Dispatchers :
           InFlight(d) =>
             (heap[dreq[d].callSid].state # dreq[d].found.state
                <=> op = LOCKED_SMS_SENT_STAGE_ID)]_vars

\* C35: when a step of a dispatch changes the stage of a session from A to
\* B, every path REQUIRED_FIELDS_BY_TRANSITION lists for A to B is populated
\* on the session as the step leaves it; and a dispatch answered
\* missing_required_fields names the missing paths and has left the stage as
\* it found it.
C35_RequiredFieldsPresent ==
  /\ [](\A d \in Dispatchers :
          (dpc[d] = "done" /\ Failed(d, "missing_required_fields"))
            => /\ dres[d].details # {}
               /\ heap[dreq[d].callSid].state = dreq[d].found.state)
  /\ [][\A c \in DOMAIN heap :
          ((\E d \in Dispatchers : dpc'[d] # dpc[d]) /\ heap'[c].state # heap[c].state)
            => \A path \in REQUIRED_FIELDS_BY_TRANSITION(heap[c].state, heap'[c].state) :
                 Populated(heap'[c], path)]_vars

\* The same for every transition of the table but BOOKED to
\* CONFIRMED_SMS_SENT, whose fields handleSendConfirmationSms tests on a
\* copy of the session.
C35_RequiredFieldsButSms ==
  [][\A c \in DOMAIN heap :
       ((\E d \in Dispatchers : dpc'[d] # dpc[d]) /\ heap'[c].state # heap[c].state
          /\ heap'[c].state # "CONFIRMED_SMS_SENT")
         => \A path \in REQUIRED_FIELDS_BY_TRANSITION(heap[c].state, heap'[c].state) :
              Populated(heap'[c], path)]_vars

\* The session is at CONFIRMED_SMS_SENT and carries no consent.
C35_SentWithoutSessionConsent ==
  \E c \in DOMAIN heap :
    /\ heap[c].state = "CONFIRMED_SMS_SENT"
    /\ ~heap[c].contactConsent.consent

\* The audit log of the session is the history of its stage: it starts with
\* null to CALL_STARTED, every entry starts where the one before ended, and
\* the last one ends at the session's stage.
AuditMirrors(session) ==
  LET log == session.auditLog
  IN IF log = << >> THEN session.state = NullState
     ELSE /\ log[1].previousState = NullState
          /\ log[1].nextState = "CALL_STARTED"
          /\ \A i \in 2..Len(log) : log[i].previousState = log[i - 1].nextState
          /\ log[Len(log)].nextState = session.state

\* C36: the audit log of every session mirrors its stage history, and no
\* step removes or rewrites an entry: the log after a step is the log before
\* it, with exactly one entry more when the step moved the stage and none
\* otherwise; a start writes the first entry of a new session.
C36_AuditLogMirrorsStages ==
  /\ [](\A c \in DOMAIN heap : AuditMirrors(heap[c]))
  /\ [][/\ \A c \in DOMAIN heap :
             LET before == heap[c].auditLog
                 after == heap'[c].auditLog
             IN /\ Len(after) >= Len(before)
                /\ SubSeq(after, 1, Len(before)) = before
                /\ Len(after) = IF heap'[c].state # heap[c].state
                                  THEN Len(before) + 1 ELSE Len(before)
        /\ \A c \in DOMAIN heap' \ DOMAIN heap : Len(heap'[c].auditLog) = 1]_vars

\* A call that went through tools and was ended by the relay: the log holds
\* each stage in turn.
C36_Witness ==
  \E c \in DOMAIN heap :
    /\ heap[c].state = "CALL_ENDED"
    /\ Len(heap[c].auditLog) >= 4
    /\ lastOp.op = "transition"
    /\ lastOp.ok
    /\ callFinalized[c]

\* updateSession has put a copy of the session into the Map while the
\* dispatch of d was in flight: the dispatch found the session without the
\* result of the CRM intake, and the stored record carries it. From here on
\* the handler of d holds the replaced object. The intake settles from the
\* callback of its last HTTP response, and Node runs a callback and the
\* microtasks it queues to the end before the next callback: an await on a
\* call that returns without I/O (enforceDeploymentGate, maybeUpsertContact
\* and maybeLogEngagement without crmReady) is no point where the intake can
\* settle, which is why those stretches are one step of the dispatcher.
Stale(d) ==
  /\ InFlight(d)
  /\ dreq[d].found.present
  /\ ~dreq[d].found.hubspotSet
  /\ heap[dreq[d].callSid].hubspot.set

\* C37: a dispatch that holds a replaced session object writes nothing to
\* it, neither a stage nor a field, so every write of a dispatch goes to the
\* record the store holds; and the stage a dispatch reports with ok:true is
\* the stage of the stored record.
C37_NoStaleWrites ==
  /\ [](\A d \in Dispatchers :
          (/\ dpc[d] = "done"
           /\ dres[d].tag = "resolved"
           /\ dres[d].ok
           /\ dreq[d].callSid \in sessions)
            => dres[d].state = heap[dreq[d].callSid].state)
  /\ [][\A d \in Dispatchers :
          (Stale(d) /\ dpc'[d] # dpc[d])
            => heap'[dreq[d].callSid] = heap[dreq[d].callSid]]_vars

\* The intake settled while a dispatch was suspended in the catch of
\* dispatchTool.
C37_Witness == \E d \in Dispatchers : Stale(d) /\ dpc[d] = "catch_alert"

\* ---- the tools of one call while the relay may finalize the call: a peer
\* stops, closes or fails at any moment, also while a dispatch is suspended
\* on a collaborator or on the idempotency store. The handler keeps the
\* session object the store dropped and resumes on it.
NextFinalizeRace ==
  \/ NextDispatch
  \/ \E c \in CallSids : finalizeCall(c)

\* The collaborators work (the failures allowed are used up), so that what
\* a dispatch answers after the call was finalized is the work of the
\* finalization alone.
InitFinalizeRace ==
  /\ InitIdempotency
  /\ idpEnabled
  /\ InitSessions
  /\ IdleMatrix
  /\ Booted
  /\ IdleCanonical
  /\ hubspotEnabled \in BOOLEAN
  /\ crm \in {[deployment_status |-> st, contact |-> NewContact] : st \in DeploymentStatuses}
  /\ dpc = [d \in Dispatchers |-> "idle"]
  /\ dreq = [d \in Dispatchers |-> NoRequest]
  /\ dloc = [d \in Dispatchers |-> NoLoc]
  /\ dres = [d \in Dispatchers |-> DispatchPending]
  /\ dinv = [d \in Dispatchers |-> {}]
  /\ effects = [op \in Counted |-> 0]
  /\ faults = MaxFaults
  /\ lastFailed = [d \in Dispatchers |-> NoFailure]
  /\ IdleRelay
  /\ now = 0

SpecFinalizeRace == InitFinalizeRace /\ [][NextFinalizeRace]_vars

\* The same race with collaborators that may fail.
SpecFinalizeRaceFaulty == InitDispatchSpec /\ [][NextFinalizeRace]_vars

\* The stages the session of callSid has reached: the nextState of the
\* entries of its audit log.
StagesReached(callSid) ==
  {heap[callSid].auditLog[i].nextState : i \in DOMAIN heap[callSid].auditLog}

\* C38: once the relay has finalized a call its session is at CALL_ENDED
\* and out of the store, whatever a dispatch that was in flight does when it
\* resumes; and a dispatch answers ok:true only with a stage the session has
\* reached.
C38_FinalizedStaysEnded ==
  /\ \A c \in DOMAIN heap :
       callFinalized[c] => (c \notin sessions /\ heap[c].state = "CALL_ENDED")
  /\ \A d \in Dispatchers :
       (dpc[d] = "done" /\ dres[d].tag = "resolved" /\ dres[d].ok)
         => dres[d].state \in StagesReached(dreq[d].callSid)

\* A dispatch other than finalize_and_log found the session in the store
\* and answers ok:true with CALL_ENDED: the relay finalized the call while
\* it was suspended.
C38_Witness ==
  \E d \in Dispatchers :
    /\ dpc[d] = "done"
    /\ dreq[d].found.present
    /\ dreq[d].toolName # "finalize_and_log"
    /\ callFinalized[dreq[d].callSid]
    /\ dres[d].tag = "resolved" /\ dres[d].ok
    /\ dres[d].state = "CALL_ENDED"

\* A dispatch is suspended after the relay finalized the call.
C38_WitnessSuspended ==
  \E d \in Dispatchers : InFlight(d) /\ callFinalized[dreq[d].callSid]

\* C39: a session carries a booking only if the transition to BOOKED has
\* been applied to it; a book_estimate that fails leaves the session without
\* a booking and at SCHEDULING.
C39_BookingOnlyWhenBooked ==
  \A c \in DOMAIN heap :
    heap[c].booking.set => "BOOKED" \in StagesReached(c)

\* What the handler keeps: session.booking is written only at SCHEDULING or
\* later, after bookSlot returned an event, and a book_estimate that fails
\* leaves the stage as it found it.
C39_BookingOnlyAfterBookSlot ==
  /\ \A c \in DOMAIN heap :
       heap[c].booking.set =>
         (/\ "SCHEDULING" \in StagesReached(c)
          /\ heap[c].booking.calendarEventId # "")
  /\ \A d \in Dispatchers :
       (/\ dpc[d] = "done"
        /\ dreq[d].toolName = "book_estimate"
        /\ dres[d].tag = "resolved"
        /\ ~dres[d].ok
        /\ dreq[d].found.present)
         => heap[dreq[d].callSid].state = dreq[d].found.state

\* book_estimate answered calendar_booking_failed and the session carries a
\* booking at SCHEDULING.
C39_BookingAtScheduling ==
  \E d \in Dispatchers :
    /\ dpc[d] = "done"
    /\ dreq[d].toolName = "book_estimate"
    /\ dres[d].tag = "resolved"
    /\ dres[d].code = "calendar_booking_failed"
    /\ heap[dreq[d].callSid].booking.set
    /\ heap[dreq[d].callSid].state = "SCHEDULING"
    /\ "BOOKED" \notin StagesReached(dreq[d].callSid)

\* The stages the session of callSid entered more than once.
Revisited(callSid) ==
  LET log == heap[callSid].auditLog
  IN {log[i].nextState : i \in {k \in DOMAIN log :
                                  \E j \in DOMAIN log :
                                    j < k /\ log[j].nextState = log[k].nextState}}

\* C40: no sequence of legal transitions from null enters a stage twice, so
\* a session undergoes at most ten transitions.
C40_NoStageTwice ==
  \A c \in DOMAIN heap :
    /\ Revisited(c) = {}
    /\ Len(heap[c].auditLog) <= Len(STATES)

\* What canTransition keeps: the stages a session can enter again are
\* LOGGED_TO_HUBSPOT and ESCALATED, which lead to each other, and a session
\* at CALL_ENDED has entered it once and is at the end of its log.
C40_OnlyLoggedAndEscalatedRepeat ==
  \A c \in DOMAIN heap :
    /\ Revisited(c) \subseteq {"LOGGED_TO_HUBSPOT", "ESCALATED"}
    /\ \A i \in DOMAIN heap[c].auditLog :
         heap[c].auditLog[i].nextState = "CALL_ENDED" => i = Len(heap[c].auditLog)

\* A session went from LOGGED_TO_HUBSPOT to ESCALATED and back.
C40_LoggedTwice ==
  \E c \in DOMAIN heap : "LOGGED_TO_HUBSPOT" \in Revisited(c)

====
